---- MODULE Spec2Model ----
(***************************************************************************)
(* Context assembly and question answering of the DeepPurple backend:     *)
(* ask_question (synchronous), stream_question_answer / generate_stream   *)
(* (streamed), answer_question and answer_question_stream, over the       *)
(* sessions, files / file_contents and questions tables.                  *)
(*                                                                         *)
(* A text is a sequence of symbols.  A symbol is one character, except    *)
(* that the literal "Sources:" and each fixed message of the code is one  *)
(* symbol.  The Turn Log is the questions table, kept in creation order   *)
(* (created_at ascending).                                                *)
(***************************************************************************)
EXTENDS Integers, Sequences, FiniteSets, TLC

VARIABLES db_dialect, sessions, files, questions, requests, orm, auth

vars == <<db_dialect, sessions, files, questions, requests, orm, auth>>

\* Python None / SQL NULL where a text is expected: a reserved value that is
\* no text of the model (it differs from the empty text)
None == <<"<None>">>
\* Optional[int]: the empty sequence is None, <<n>> is the integer n
NoInt == << >>
SomeInt(n) == <<n>>

\* orm: the thread-local Session objects of SessionLocal as the requests of
\* one server process use them.  orm.exit is when the "finally: db.close()"
\* of get_db runs for a request: "before_response" (after the handler
\* returned, before the body is sent) or "after_response" (after the body
\* was sent), as the installed FastAPI release has it.  orm.of[r] is the
\* Session object request r was given (db), the state of the ORM instances r
\* holds (state), and whether get_db has closed the Session for r (closed).
\* NoOrm: the Session objects are not followed (each request has its own).
NoOrm == [exit |-> "none", of |-> << >>]

\* auth: the users table, the module-level token_blacklist of core/auth.py
\* and the access tokens handed out, with the response of the last account
\* request.  NoAuth: accounts are not followed (every request is of a user
\* who is logged in).
NoAuth == [users |-> << >>]

\* Python values where the code tests a type or a truth value: a list of
\* texts, a str, an int, None
PyList(items) == [py |-> "list", val |-> items]
PyStr(t) == [py |-> "str", val |-> t]
PyInt(n) == [py |-> "int", val |-> <<n>>]
PyNone == [py |-> "NoneType", val |-> << >>]

\* bool(v): an empty list, an empty str, 0 and None are false
Truthy(v) ==
    IF v.py = "NoneType" THEN FALSE
    ELSE IF v.py = "int" THEN v.val[1] # 0
    ELSE Len(v.val) > 0

\* str(n) for 0 <= n <= 9
Digit(n) == (<<"0", "1", "2", "3", "4", "5", "6", "7", "8", "9">>)[n + 1]

\* str(v) of a scalar
Str(v) ==
    IF v.py = "str" THEN v.val
    ELSE IF v.py = "int" THEN <<Digit(v.val[1])>>
    ELSE <<"N", "o", "n", "e">>

----------------------------------------------------------------------------
(* Bounds of the model                                                     *)

\* question requests (synchronous and streamed together) in one behaviour
MaxRequests == 2
\* fragments the Gateway yields in one stream before it ends or fails
MaxFragments == 1
\* length of the Turn Log in an initial state of SpecHistory
MaxLog == 6
\* files of the session in an initial state of SpecContext
MaxCtxFiles == 2
\* symbols of a model response in an initial state of SpecParse
MaxResponseLen == 4
\* rows of the files table, and of the Turn Log, in an initial state of
\* SpecIsolation
MaxIsoRows == 2
\* account requests in one behaviour of SpecAccounts
MaxAuthSteps == 4
\* seconds that pass in one behaviour of SpecAccounts
MaxClock == 1

----------------------------------------------------------------------------
(* Text helpers (Python str operations used by the code)                   *)

Min(a, b) == IF a < b THEN a ELSE b

\* t[:n] for n >= 0
Prefix(t, n) == SubSeq(t, 1, Min(n, Len(t)))

\* t[n:] for n >= 0 (n counted from 0)
Suffix(t, n) == SubSeq(t, n + 1, Len(t))

Reverse(s) == [i \in 1..Len(s) |-> s[Len(s) + 1 - i]]

\* a text of n filler characters
Fill(n, c) == [i \in 1..n |-> c]

\* position of the first occurrence of symbol c in t, 0 when absent
IndexOf(t, c) ==
    IF \E i \in 1..Len(t) : t[i] = c
    THEN CHOOSE i \in 1..Len(t) : t[i] = c /\ \A j \in 1..(i - 1) : t[j] # c
    ELSE 0

IsSpace(c) == c \in {" ", "\n"}

\* str.strip()
Strip(t) ==
    IF \A i \in 1..Len(t) : IsSpace(t[i])
    THEN << >>
    ELSE LET first == CHOOSE i \in 1..Len(t) :
                          ~IsSpace(t[i]) /\ \A j \in 1..(i - 1) : IsSpace(t[j])
             last  == CHOOSE i \in 1..Len(t) :
                          ~IsSpace(t[i]) /\ \A j \in (i + 1)..Len(t) : IsSpace(t[j])
         IN  SubSeq(t, first, last)

\* sep.join(list)
RECURSIVE Join(_, _)
Join(list, sep) ==
    IF Len(list) = 0 THEN << >>
    ELSE IF Len(list) = 1 THEN list[1]
    ELSE list[1] \o sep \o Join(Tail(list), sep)

\* t.split(c): the pieces of t between the occurrences of symbol c
RECURSIVE Split(_, _)
Split(t, c) ==
    LET i == IndexOf(t, c)
    IN  IF i = 0 THEN <<t>>
        ELSE <<SubSeq(t, 1, i - 1)>> \o Split(Suffix(t, i), c)

\* t.split(c, 1): at most one split, at the first occurrence of c
Split1(t, c) ==
    LET i == IndexOf(t, c)
    IN  IF i = 0 THEN <<t>>
        ELSE <<SubSeq(t, 1, i - 1), Suffix(t, i)>>

RECURSIVE Flatten(_)
Flatten(list) ==
    IF Len(list) = 0 THEN << >> ELSE list[1] \o Flatten(Tail(list))

----------------------------------------------------------------------------
(* Program constants and fixed messages                                    *)

\* context[:10000]
CONTEXT_LIMIT == 10000
\* history_limit default of QuestionRequest and of the handlers
DEFAULT_HISTORY_LIMIT == 5
\* len(question) > 100
PASTED_TEXT_MIN == 100
\* len(parts[1]) > 50
PASTED_REMAINDER_MIN == 50

SOURCES_MARKER == "Sources:"

\* "I can answer general questions or analyze uploaded files. ..."
GENERAL_FALLBACK == <<"[I can answer general questions or analyze uploaded files...]">>
\* "I encountered an error processing your question about the uploaded content. Error: "
ERROR_PREFIX == <<"[I encountered an error processing your question... Error: ]">>
\* "I couldn't process your question due to a technical error. Please try again later."
STREAM_ERROR == <<"[I couldn't process your question due to a technical error...]">>
\* "I'm having trouble analyzing your text. Please try again."
PASTED_STREAM_ERROR == <<"[I'm having trouble analyzing your text...]">>
\* "I'm having trouble processing your question. Please try again."
GENERAL_STREAM_ERROR == <<"[I'm having trouble processing your question...]">>
\* "Error: "
DOCS_STREAM_ERROR_PREFIX == <<"[Error: ]">>
\* "Can you analyze this text for me?"
GENERIC_QUESTION == <<"[Can you analyze this text for me?]">>

----------------------------------------------------------------------------
(* Database: sessions, files with their file_contents, questions           *)

\* the engine selected at start-up: PostgreSQL, or the SQLite fallback
Dialects == {"postgresql", "sqlite"}

\* SessionOwned without the user_id filter
SessionExists(u, sid) == sid \in DOMAIN sessions

\* SessionModel.id == session_id, SessionModel.user_id == current_user.id
SessionOwned(u, sid) == sid \in DOMAIN sessions /\ sessions[sid] = u

\* rows of file_contents joined to the files of the session, in fetch order.
\* A file whose file_contents row is missing has content None; the join, the
\* relationship navigation and the lookup by file id all skip it.
FileContentsOf(sid) ==
    LET own == SelectSeq(files, LAMBDA f : f.session_id = sid /\ f.content # None)
    IN  [i \in 1..Len(own) |-> own[i].content]

\* .limit(n).all() over rows: LIMIT 0 gives no row; a negative LIMIT is an
\* error on PostgreSQL and means no limit on SQLite
LimitRows(rows, n) ==
    IF n >= 0 THEN [ok |-> TRUE, rows |-> Prefix(rows, n)]
    ELSE IF db_dialect = "sqlite" THEN [ok |-> TRUE, rows |-> rows]
    ELSE [ok |-> FALSE, rows |-> << >>]

\* AnsweredOf without the answer_text filter
AllTurnsOf(sid) ==
    SelectSeq(questions, LAMBDA t : t.session_id = sid)

\* AnsweredOf without the session_id filter
AnsweredOfAnySession(sid) ==
    SelectSeq(questions, LAMBDA t : t.answer_text # None)

\* the filter of the history query: the session's Turns with an answer
\* (Question.session_id == session.id, Question.answer_text.isnot(None))
AnsweredOf(sid) ==
    SelectSeq(questions, LAMBDA t : t.session_id = sid /\ t.answer_text # None)

\* PreviousQuestions ordered by created_at ascending
PreviousQuestionsOldestFirst(sid, history_limit) ==
    LimitRows(AnsweredOf(sid), history_limit)

\* db.query(Question).filter(session_id, answer_text IS NOT NULL)
\*   .order_by(created_at.desc()).limit(history_limit).all()
PreviousQuestions(sid, history_limit) ==
    LimitRows(Reverse(AnsweredOf(sid)), history_limit)

\* history_limit if history_limit is not None else 5
EffectiveLimit(history_limit) ==
    IF history_limit # NoInt THEN history_limit[1] ELSE DEFAULT_HISTORY_LIMIT

\* ask_question: [{"question": q.question_text, "answer": q.answer_text}
\*                for q in reversed(previous_questions)]
HistorySync(previous_questions) ==
    LET rev == Reverse(previous_questions)
    IN  [i \in 1..Len(rev) |->
            [question |-> rev[i].question_text, answer |-> rev[i].answer_text,
             turn |-> rev[i].id]]

\* the chart_data column of a Turn (NULL when the Turn has no chart)
ChartData(t) == t.chart_data

\* A chart payload is kept as its JSON text, a sequence of JSON tokens.
\* "not q.chart_data": NULL, and the JSON values that Python reads as false
ChartFalsy(chart_data) ==
    \/ chart_data = None
    \/ chart_data \in {<<"{", "}">>, <<"[", "]">>, <<"0">>, <<"null">>,
                       <<"false">>, <<"\"\"">>}

\* str() of one token of json.loads(chart_data) inside f'{q.chart_data}':
\* Python's repr of the value, not its JSON text
TokenRepr(tok) ==
    IF tok = ":" THEN <<":", " ">>
    ELSE IF tok = "," THEN <<",", " ">>
    ELSE IF tok = "true" THEN <<"True">>
    ELSE IF tok = "false" THEN <<"False">>
    ELSE IF tok = "null" THEN <<"None">>
    ELSE IF tok = "\"k\"" THEN <<"'k'">>
    ELSE <<tok>>

\* f'{q.chart_data}'
ChartRepr(chart_data) ==
    Flatten([i \in 1..Len(chart_data) |-> TokenRepr(chart_data[i])])

\* stream_question_answer: as above, but a Turn with chart data contributes
\* f'{q.answer_text}: {q.chart_data}'
HistoryStream(previous_questions) ==
    LET rev == Reverse(previous_questions)
    IN  [i \in 1..Len(rev) |->
            [question |-> rev[i].question_text,
             answer |-> IF ChartFalsy(ChartData(rev[i])) THEN rev[i].answer_text
                        ELSE rev[i].answer_text \o <<":", " ">>
                                 \o ChartRepr(ChartData(rev[i])),
             turn |-> rev[i].id]]

\* NewTurn with the answer left out of the row (the question stored alone)
\* the primary key the questions table gives a new row: one more than the
\* largest id in the table (1 in an empty table)
NextQuestionId ==
    IF Len(questions) = 0 THEN 1
    ELSE 1 + CHOOSE m \in {questions[i].id : i \in 1..Len(questions)} :
                 \A i \in 1..Len(questions) : questions[i].id <= m

NewTurnQuestionOnly(sid, q, a, chart, r) ==
    [id |-> NextQuestionId, session_id |-> sid, question_text |-> q,
     answer_text |-> None, chart_data |-> chart, req |-> r]

\* Question(session_id=..., question_text=..., answer_text=...); db.add; db.commit
\* (id: the primary key; req: the request that wrote the row, kept for the checks)
NewTurn(sid, q, a, chart, r) ==
    [id |-> NextQuestionId, session_id |-> sid, question_text |-> q,
     answer_text |-> a, chart_data |-> chart, req |-> r]

----------------------------------------------------------------------------
(* utils/text_analyzer.py                                                  *)

\* "\n".join of "User: ..." / "Assistant: ..." lines
ConversationMessages(history) ==
    Join([i \in 1..(2 * Len(history)) |->
            IF i % 2 = 1 THEN <<"[User: ]">> \o history[(i + 1) \div 2].question
            ELSE <<"[Assistant: ]">> \o history[i \div 2].answer],
         <<"\n">>)

\* TruncateContext without the cut
TruncateContextNoCut(context) == context

\* context[:10000]
TruncateContext(context) == Prefix(context, CONTEXT_LIMIT)

\* inputs = {"question": ..., "context": context[:10000], "conversation_history": ...}
PromptInputs(question, context, history) ==
    [question |-> question, context |-> TruncateContext(context),
     conversation_history |-> ConversationMessages(history)]

\* the Sources section: [s.strip() for s in sources_text.split("\n") if s.strip()]
SourceLines(sources_text) ==
    LET lines == Split(sources_text, "\n")
        stripped == [i \in 1..Len(lines) |-> Strip(lines[i])]
    IN  SelectSeq(stripped, LAMBDA l : Len(l) > 0)

\* the split without the "if not answer" fallback
ParseResponseNoFallback(response) ==
    LET parts == Split1(response, SOURCES_MARKER)
    IN  [answer |-> IF Len(parts) > 1 THEN Strip(parts[1]) ELSE response,
         sources |-> IF Len(parts) > 1 THEN SourceLines(Strip(parts[2])) ELSE << >>]

\* response.split("Sources:", 1) and what follows it
ParseResponse(response) ==
    LET parts == Split1(response, SOURCES_MARKER)
        answer == IF Len(parts) > 1 THEN Strip(parts[1]) ELSE response
        sources == IF Len(parts) > 1 THEN SourceLines(Strip(parts[2])) ELSE << >>
    IN  [answer |-> IF Len(answer) = 0 THEN response ELSE answer,
         sources |-> sources]

\* answer_question(question, context, conversation_history) with the outcome gw
\* of chain.invoke: [type |-> "ok", response |-> text] or [type |-> "raise", msg |-> text]
answer_question(question, context, history, gw) ==
    LET inputs == PromptInputs(question, context, history)
    IN  IF gw.type = "raise"
        THEN [raised |-> TRUE, exc |-> gw.msg, answer |-> None, sources |-> << >>,
              inputs |-> inputs]
        ELSE [raised |-> FALSE, exc |-> None,
              answer |-> ParseResponse(gw.response).answer,
              sources |-> ParseResponse(gw.response).sources,
              inputs |-> inputs]

----------------------------------------------------------------------------
(* api/text_analysis_api.py: the pasted-text heuristic                     *)

\* contains_pasted_text = len(question) > 100
ContainsPastedText(question) == Len(question) > PASTED_TEXT_MIN

\* the heuristic handing on the text after the "?" as it stands
PastedTextSplitUnstripped(question) ==
    LET parts == Split1(question, "?")
    IN  IF IndexOf(question, "?") # 0
           /\ Len(parts) > 1 /\ Len(parts[2]) > PASTED_REMAINDER_MIN
        THEN [question |-> parts[1] \o <<"?">>, context |-> parts[2]]
        ELSE [question |-> GENERIC_QUESTION, context |-> question]

\* the (actual_question, context_from_question) pair of the heuristic
PastedTextSplit(question) ==
    LET parts == Split1(question, "?")
    IN  IF IndexOf(question, "?") # 0
           /\ Len(parts) > 1 /\ Len(parts[2]) > PASTED_REMAINDER_MIN
        THEN [question |-> parts[1] \o <<"?">>, context |-> Strip(parts[2])]
        ELSE [question |-> GENERIC_QUESTION, context |-> question]

----------------------------------------------------------------------------
(* Requests.  requests[r] is the record of the r-th question request, in   *)
(* arrival order: what it was given, what it read, what it sent to the     *)
(* model, what it returned or streamed, and how far it has got.            *)

NewRequest(kind, u, sid, q, limit) ==
    [kind |-> kind, user |-> u, session_id |-> sid, question |-> q,
     history_limit |-> limit,
     \* length of the Turn Log when the handler ran its queries
     seen_log |-> Len(questions),
     \* whether a Gateway call of the request raised
     gw_raised |-> FALSE,
     \* "not_found" (404), "server_error" (500), "ok" (200 returned),
     \* "streaming", "done" (stream exhausted), "cancelled" (caller gone)
     status |-> "ok",
     file_contents |-> << >>,
     conversation_history |-> << >>,
     \* inputs of every chain.invoke / chain.astream of the request
     gw_calls |-> << >>,
     \* synchronous result
     answer |-> None, sources |-> PyList(<< >>),
     \* the sources value the handler received from its Gateway call
     gw_sources |-> PyList(<< >>),
     \* streaming: the generator's complete_answer, the fragments the caller
     \* received, the state of answer_question_stream, the arguments it got
     complete_answer |-> << >>, delivered |-> << >>,
     inner |-> "none", stream_args |-> None, branch |-> "none",
     \* db.commit() calls of a Turn write, and those that succeeded
     writes |-> 0, written |-> 0]

\* the Turns a request wrote
TurnsOf(r) == SelectSeq(questions, LAMBDA t : t.req = r)

\* answer_text, sources = answer_question(...) as the handler receives it.
\* gw is an outcome of chain.invoke inside answer_question, whose sources are
\* then a list; or [type |-> "returns", answer, sources]: the call handed
\* back this pair, with a sources value of any type (the case the handler's
\* isinstance test is written for).
Complete(question, context, history, gw) ==
    IF gw.type = "returns"
    THEN [raised |-> FALSE, exc |-> None, answer |-> gw.answer,
          sources |-> gw.sources,
          inputs |-> PromptInputs(question, context, history)]
    ELSE LET res == answer_question(question, context, history, gw)
         IN  [raised |-> res.raised, exc |-> res.exc, answer |-> res.answer,
              sources |-> PyList(res.sources), inputs |-> res.inputs]

\* NormalizeSources without the isinstance test
NormalizeSourcesPassThrough(sources) == sources

\* if not isinstance(sources, list):
\*     sources = [str(sources)] if sources else []
NormalizeSources(sources) ==
    IF sources.py # "list"
    THEN IF Truthy(sources) THEN PyList(<<Str(sources)>>) ELSE PyList(<< >>)
    ELSE sources

\* "sources": sources if sources else []
SourcesOrEmpty(sources) == IF Truthy(sources) THEN sources ELSE PyList(<< >>)

\* response_model=schemas.QuestionResponse (sources: List[str]): a returned
\* sources value that is no list fails the validation of the response
ResponseValid(sources) == sources.py = "list"

\* FailureAnswer without the str(e) of the exception
FailureAnswerWithoutDetail(fc, exc) ==
    IF Len(fc) = 0 THEN GENERAL_FALLBACK ELSE ERROR_PREFIX

\* the answer of the "except Exception" blocks of ask_question: without file
\* contents the fixed text "I can answer general questions ...", with them
\* f"I encountered an error ... Error: {str(e)}"
FailureAnswer(fc, exc) ==
    IF Len(fc) = 0 THEN GENERAL_FALLBACK ELSE ERROR_PREFIX \o exc

\* GatewayCalls with the call repeated after a failure
GatewayCallsRetried(res) ==
    IF res.raised THEN <<res.inputs, res.inputs>> ELSE <<res.inputs>>

\* the model calls of one run of ask_question: the one answer_question call
\* of the branch taken; no except block calls it again
GatewayCalls(res) == <<res.inputs>>

\* AskOutcome without the except blocks: a Gateway failure fails the request
AskOutcomeReraise(q, fc, hist, gw, commit_ok) ==
    LET context == IF Len(fc) = 0 THEN << >> ELSE Join(fc, <<"\n", "\n">>)
        res == Complete(q, context, hist, gw)
    IN  [status |-> IF res.raised \/ ~commit_ok THEN "server_error" ELSE "ok",
         answer |-> res.answer,
         sources |-> res.sources,
         gw_sources |-> res.sources,
         gw_calls |-> GatewayCalls(res),
         writes |-> IF res.raised THEN 0 ELSE 1,
         store |-> ~res.raised /\ commit_ok]

\* ask_question after the history query, for the file contents fc, the
\* history hist and the outcome gw of the Gateway call: what it returns and
\* the answer it stores.  Without file contents: the general-knowledge branch
\* (the call and the write in one try, a fixed fallback answer in the except).
\* With file contents: the pasted-text block, guarded by "not file_contents
\* and contains_pasted_text", is skipped; the call is made with the joined
\* contents and a failure becomes an answer that quotes the error.  The
\* sources are returned as "sources if sources else []" without file
\* contents and after the isinstance test with them; the returned value is
\* then validated against the response model.  commit_ok: whether the
\* db.commit() calls of the request succeed.  A commit that raises is caught
\* once without file contents (the except block then commits the fallback
\* answer, which raises again) and not at all with them: the exception
\* leaves the handler and the request fails.
AskOutcome(q, fc, hist, gw, commit_ok) ==
    LET context == IF Len(fc) = 0 THEN << >> ELSE Join(fc, <<"\n", "\n">>)
        res == Complete(q, context, hist, gw)
        fallback == FailureAnswer(fc, res.exc)
        sources == IF res.raised THEN PyList(<< >>)
                   ELSE IF Len(fc) = 0 THEN SourcesOrEmpty(res.sources)
                   ELSE NormalizeSources(res.sources)
    IN  IF commit_ok
        THEN [status |-> IF ResponseValid(sources) THEN "ok" ELSE "server_error",
              answer |-> IF res.raised THEN fallback ELSE res.answer,
              sources |-> sources,
              gw_sources |-> res.sources,
              gw_calls |-> GatewayCalls(res),
              writes |-> 1,
              store |-> TRUE]
        ELSE [status |-> "server_error",
              answer |-> None,
              sources |-> PyList(<< >>),
              gw_sources |-> res.sources,
              gw_calls |-> GatewayCalls(res),
              writes |-> IF Len(fc) = 0 /\ ~res.raised THEN 2 ELSE 1,
              store |-> FALSE]

\* AskReturn with the history read again after the Turn was written
AskReturnHistoryReread(base, r, fc, hist, gw, out) ==
    /\ questions' = IF out.store
                    THEN Append(questions,
                             NewTurn(base.session_id, base.question,
                                     out.answer, None, r))
                    ELSE questions
    /\ requests' = Append(requests,
           [base EXCEPT !.status = out.status,
                        !.file_contents = fc,
                        !.conversation_history =
                            IF out.store
                            THEN Append(hist, [turn |-> NextQuestionId,
                                               question |-> base.question,
                                               answer |-> out.answer])
                            ELSE hist,
                        !.gw_calls = out.gw_calls,
                        !.gw_raised = (gw.type = "raise"),
                        !.answer = out.answer,
                        !.sources = out.sources,
                        !.gw_sources = out.gw_sources,
                        !.writes = out.writes,
                        !.written = IF out.store THEN 1 ELSE 0])

\* the Turn write and the return of ask_question, for the outcome out
AskReturn(base, r, fc, hist, gw, out) ==
    /\ questions' = IF out.store
                    THEN Append(questions,
                             NewTurn(base.session_id, base.question,
                                     out.answer, None, r))
                    ELSE questions
    /\ requests' = Append(requests,
           [base EXCEPT !.status = out.status,
                        !.file_contents = fc,
                        !.conversation_history = hist,
                        !.gw_calls = out.gw_calls,
                        !.gw_raised = (gw.type = "raise"),
                        !.answer = out.answer,
                        !.sources = out.sources,
                        !.gw_sources = out.gw_sources,
                        !.writes = out.writes,
                        !.written = IF out.store THEN 1 ELSE 0])

AskOwned(base, r, pq, gw, commit_ok) ==
    LET fc == FileContentsOf(base.session_id)
        hist == HistorySync(pq)
    IN  AskReturn(base, r, fc, hist, gw,
                  AskOutcome(base.question, fc, hist, gw, commit_ok))

\* POST /analysis/question
AskQuestion(u, sid, q, limit, gw, commit_ok) ==
    /\ Len(requests) < MaxRequests
    /\ LET r == Len(requests) + 1
           base == NewRequest("ask", u, sid, q, limit)
           pq == PreviousQuestions(sid, EffectiveLimit(limit))
       IN  IF ~SessionOwned(u, sid)
           THEN /\ requests' = Append(requests, [base EXCEPT !.status = "not_found"])
                /\ UNCHANGED questions
           ELSE IF ~pq.ok
           THEN \* the history query raises: unhandled, the request fails
                /\ requests' = Append(requests, [base EXCEPT !.status = "server_error"])
                /\ UNCHANGED questions
           ELSE AskOwned(base, r, pq.rows, gw, commit_ok)
    /\ UNCHANGED <<db_dialect, sessions, files>>

----------------------------------------------------------------------------
(* Streaming: stream_question_answer, generate_stream, answer_question_stream *)

\* AnswerQuestionStreamYield without its "except Exception": the failure of
\* chain.astream reaches the consumer as an exception
AnswerQuestionStreamReraise(ev) ==
    IF ev.type = "chunk"
    THEN [kind |-> "token", token |-> ev.content, closes |-> FALSE]
    ELSE [kind |-> "raise", exc |-> ev.msg]

\* what answer_question_stream yields to its consumer for an event of
\* chain.astream: a chunk is yielded as its content; an exception raised
\* before or between chunks is caught ("except Exception") and answered by one
\* last fragment, after which the generator returns
AnswerQuestionStreamYield(ev) ==
    IF ev.type = "chunk"
    THEN [kind |-> "token", token |-> ev.content, closes |-> FALSE]
    ELSE [kind |-> "token", token |-> STREAM_ERROR, closes |-> TRUE]

\* content of the k-th chunk of chain.astream: one symbol, distinct per position
ChunkContent(k) == <<(<<"c1", "c2", "c3", "c4", "c5", "c6">>)[k]>>

\* error_msg of the three "except Exception" handlers of generate_stream
StreamErrorMsg(branch, exc) ==
    IF branch = "pasted" THEN PASTED_STREAM_ERROR
    ELSE IF branch = "general" THEN GENERAL_STREAM_ERROR
    ELSE DOCS_STREAM_ERROR_PREFIX \o exc

\* one turn of "async for token in answer_question_stream(...)" in
\* generate_stream: complete_answer += token; yield token -- or, when the
\* generator raises: complete_answer = error_msg; yield error_msg
GenerateStreamStep(req, y) ==
    LET started == IF req.inner = "idle"
                   THEN [req EXCEPT !.gw_calls = Append(@,
                            PromptInputs(req.stream_args.question,
                                         req.stream_args.context,
                                         req.conversation_history))]
                   ELSE req
    IN  IF y.kind = "token"
        THEN [started EXCEPT !.complete_answer = @ \o y.token,
                             !.delivered = Append(@, y.token),
                             !.inner = IF y.closes THEN "closed" ELSE "open"]
        ELSE [started EXCEPT !.complete_answer = StreamErrorMsg(req.branch, y.exc),
                             !.delivered = Append(@, StreamErrorMsg(req.branch, y.exc)),
                             !.inner = "closed"]

\* the branch generate_stream takes and the arguments it gives to
\* answer_question_stream
StreamPlan(q, fc) ==
    IF Len(fc) = 0 /\ ContainsPastedText(q)
    THEN [branch |-> "pasted",
          args |-> [question |-> PastedTextSplit(q).question,
                    context |-> PastedTextSplit(q).context]]
    ELSE IF Len(fc) = 0
    THEN [branch |-> "general", args |-> [question |-> q, context |-> << >>]]
    ELSE [branch |-> "docs",
          args |-> [question |-> q, context |-> Join(fc, <<"\n", "\n">>)]]

\* POST /analysis/question/stream: the handler, up to the StreamingResponse
StreamQuestionAnswer(u, sid, q, limit) ==
    /\ Len(requests) < MaxRequests
    /\ LET base == NewRequest("stream", u, sid, q, limit)
           pq == PreviousQuestions(sid, EffectiveLimit(limit))
           fc == FileContentsOf(sid)
           plan == StreamPlan(q, fc)
       IN  requests' = Append(requests,
               IF ~SessionOwned(u, sid) THEN [base EXCEPT !.status = "not_found"]
               ELSE IF ~pq.ok THEN [base EXCEPT !.status = "server_error"]
               ELSE [base EXCEPT !.status = "streaming",
                                 !.file_contents = fc,
                                 !.conversation_history = HistoryStream(pq.rows),
                                 !.inner = "idle",
                                 !.branch = plan.branch,
                                 !.stream_args = plan.args])
    /\ UNCHANGED <<db_dialect, sessions, files, questions>>

\* the Gateway yields the next chunk of stream r; it is forwarded to the caller
StreamToken(r) ==
    /\ r \in 1..Len(requests)
    /\ requests[r].status = "streaming"
    /\ requests[r].inner \in {"idle", "open"}
    /\ Len(requests[r].delivered) < MaxFragments
    /\ requests' = [requests EXCEPT ![r] =
           GenerateStreamStep(@, AnswerQuestionStreamYield(
               [type |-> "chunk",
                content |-> ChunkContent(Len(requests[r].delivered) + 1)]))]
    /\ UNCHANGED <<db_dialect, sessions, files, questions>>

\* the Gateway raises, before the first chunk or between two chunks
StreamGatewayRaise(r, msg) ==
    /\ r \in 1..Len(requests)
    /\ requests[r].status = "streaming"
    /\ requests[r].inner \in {"idle", "open"}
    /\ requests' = [requests EXCEPT ![r] =
           [GenerateStreamStep(@, AnswerQuestionStreamYield(
               [type |-> "raise", msg |-> msg])) EXCEPT !.gw_raised = TRUE]]
    /\ UNCHANGED <<db_dialect, sessions, files, questions>>

\* StoreAfterStream placed inside the try of the fragment loop: it is skipped
\* when the stream failed
StoreAfterStreamUnlessFailed(req, r, commit_ok) ==
    /\ questions' = IF commit_ok /\ ~req.gw_raised
                    THEN Append(questions,
                             NewTurn(req.session_id, req.question,
                                     req.complete_answer, None, r))
                    ELSE questions
    /\ requests' = [requests EXCEPT ![r] =
           [req EXCEPT !.status = "done",
                       !.writes = IF req.gw_raised THEN @ ELSE @ + 1,
                       !.written = IF commit_ok /\ ~req.gw_raised THEN @ + 1 ELSE @]]

\* StoreAfterStream with the Turn put in front of the Turn Log
StoreAfterStreamInFront(req, r, commit_ok) ==
    /\ questions' = IF commit_ok
                    THEN <<NewTurn(req.session_id, req.question,
                                   req.complete_answer, None, r)>> \o questions
                    ELSE questions
    /\ requests' = [requests EXCEPT ![r] =
           [req EXCEPT !.status = "done",
                       !.writes = @ + 1,
                       !.written = IF commit_ok THEN @ + 1 ELSE @]]

\* StoreAfterStream without its "except Exception": a failed commit ends the
\* response with an error
StoreAfterStreamRaising(req, r, commit_ok) ==
    /\ questions' = IF commit_ok
                    THEN Append(questions,
                             NewTurn(req.session_id, req.question,
                                     req.complete_answer, None, r))
                    ELSE questions
    /\ requests' = [requests EXCEPT ![r] =
           [req EXCEPT !.status = IF commit_ok THEN "done" ELSE "server_error",
                       !.writes = @ + 1,
                       !.written = IF commit_ok THEN @ + 1 ELSE @]]

\* StoreAfterStream writing the answer into the newest Turn of the session
\* when there is one (an update in place of the insert)
StoreAfterStreamUpdating(req, r, commit_ok) ==
    /\ LET own == {i \in 1..Len(questions) : questions[i].session_id = req.session_id}
           newest == CHOOSE i \in own : \A k \in own : k <= i
       IN  questions' =
               IF ~commit_ok THEN questions
               ELSE IF own = {}
               THEN Append(questions,
                        NewTurn(req.session_id, req.question,
                                req.complete_answer, None, r))
               ELSE [questions EXCEPT ![newest] =
                        [@ EXCEPT !.question_text = req.question,
                                  !.answer_text = req.complete_answer,
                                  !.req = r]]
    /\ requests' = [requests EXCEPT ![r] =
           [req EXCEPT !.status = "done",
                       !.writes = @ + 1,
                       !.written = IF commit_ok THEN @ + 1 ELSE @]]

\* the code after the fragment loop: try: Question(...); db.add; db.commit
\* except Exception: logger.error.  commit_ok is the outcome of the commit.
StoreAfterStream(req, r, commit_ok) ==
    /\ questions' = IF commit_ok
                    THEN Append(questions,
                             NewTurn(req.session_id, req.question,
                                     req.complete_answer, None, r))
                    ELSE questions
    /\ requests' = [requests EXCEPT ![r] =
           [req EXCEPT !.status = "done",
                       !.writes = @ + 1,
                       !.written = IF commit_ok THEN @ + 1 ELSE @]]

\* the fragment loop ends (the Gateway stream is exhausted, or
\* answer_question_stream returned after its error fragment): the Turn is
\* stored and the response ends
StreamEnd(r, commit_ok) ==
    /\ r \in 1..Len(requests)
    /\ requests[r].status = "streaming"
    /\ LET req == requests[r]
           started == IF req.inner = "idle"
                      THEN [req EXCEPT !.gw_calls = Append(@,
                               PromptInputs(req.stream_args.question,
                                            req.stream_args.context,
                                            req.conversation_history)),
                                       !.inner = "closed"]
                      ELSE [req EXCEPT !.inner = "closed"]
       IN  StoreAfterStream(started, r, commit_ok)
    /\ UNCHANGED <<db_dialect, sessions, files>>

\* the caller disconnects while generate_stream is suspended: the generator
\* is closed at its yield (GeneratorExit / CancelledError, which no
\* "except Exception" catches) and nothing after the loop runs
StreamCancel(r) ==
    /\ r \in 1..Len(requests)
    /\ requests[r].status = "streaming"
    /\ requests' = [requests EXCEPT ![r] = [@ EXCEPT !.status = "cancelled"]]
    /\ UNCHANGED <<db_dialect, sessions, files, questions>>

----------------------------------------------------------------------------
(* The other handlers that write a Turn                                    *)

\* POST /analysis/question/with-file: upload a file and ask about it.
\* upload: [supported |-> mime type accepted, parsed |-> parse_file_content
\* succeeded, content |-> the parsed text]; stored: what the try block that
\* stores the file reached ("both" rows, the "file" row only, "none")
AskQuestionWithFile(u, sid, q, upload, stored, gw) ==
    /\ Len(requests) < MaxRequests
    /\ LET r == Len(requests) + 1
           base == NewRequest("with_file", u, sid, q, NoInt)
           pq == LimitRows(Reverse(AnsweredOf(sid)), DEFAULT_HISTORY_LIMIT)
           hist == HistorySync(pq.rows)
           res == answer_question(q, upload.content, hist, gw)
           ans == IF res.raised THEN ERROR_PREFIX \o res.exc ELSE res.answer
       IN  IF ~SessionOwned(u, sid)
           THEN /\ requests' = Append(requests, [base EXCEPT !.status = "not_found"])
                /\ UNCHANGED <<files, questions>>
           ELSE IF ~upload.supported
           THEN /\ requests' = Append(requests, [base EXCEPT !.status = "bad_request"])
                /\ UNCHANGED <<files, questions>>
           ELSE IF ~upload.parsed
           THEN /\ requests' = Append(requests, [base EXCEPT !.status = "server_error"])
                /\ UNCHANGED <<files, questions>>
           ELSE /\ files' = IF stored = "both"
                            THEN Append(files, [session_id |-> sid,
                                                content |-> upload.content])
                            ELSE IF stored = "file"
                            THEN Append(files, [session_id |-> sid, content |-> None])
                            ELSE files
                /\ questions' = Append(questions,
                       NewTurn(sid, Strip(<<"[File: name] ">> \o q), ans, None, r))
                /\ requests' = Append(requests,
                       [base EXCEPT !.conversation_history = hist,
                                    !.gw_calls = <<res.inputs>>,
                                    !.gw_raised = res.raised,
                                    !.file_contents = <<upload.content>>,
                                    !.answer = ans,
                                    !.sources = PyList(IF res.raised THEN << >> ELSE res.sources),
                                    !.gw_sources = PyList(res.sources),
                                    !.writes = 1, !.written = 1])
    /\ UNCHANGED <<db_dialect, sessions>>

\* chart_data = json.loads(chart_data), as the JSON column keeps it: the
\* JSON null is read back as None
JsonLoads(data) == IF data = <<"null">> THEN None ELSE data

\* POST /analysis/question/visualize: store a visualization Turn.
\* chart: [data |-> the chart_data form field, type |-> chart_type, json |->
\* chart_data parses as JSON]
VisualizeQuestion(u, sid, q, answer_text, chart) ==
    /\ Len(requests) < MaxRequests
    /\ LET r == Len(requests) + 1
           base == NewRequest("visualize", u, sid, q, NoInt)
       IN  IF ~SessionOwned(u, sid)
           THEN /\ requests' = Append(requests, [base EXCEPT !.status = "not_found"])
                /\ UNCHANGED questions
           ELSE IF Len(chart.data) = 0 \/ Len(chart.type) = 0 \/ ~chart.json
           THEN /\ requests' = Append(requests, [base EXCEPT !.status = "bad_request"])
                /\ UNCHANGED questions
           ELSE /\ questions' = Append(questions,
                       NewTurn(sid, q, answer_text, JsonLoads(chart.data), r))
                /\ requests' = Append(requests,
                       [base EXCEPT !.answer = answer_text,
                                    !.writes = 1, !.written = 1])
    /\ UNCHANGED <<db_dialect, sessions, files>>

----------------------------------------------------------------------------
(* Inputs and the specification                                            *)

\* the user who sends the requests
RequestUsers == {1}
\* session 1 belongs to user 1, session 2 to user 2; session 3 does not exist
InitSessions == (1 :> 1) @@ (2 :> 2)
SessionIds == {1, 3}

\* a short question, and a pasted text with a question in front
Q_SHORT == <<"w", "?">>
Q_PASTED == <<"w", "?">> \o Fill(PASTED_TEXT_MIN - 1, "x")
Questions == {Q_SHORT, Q_PASTED}

\* history_limit of a request
Limits == {NoInt}
\* outcomes of chain.invoke
\* uploads of question/with-file: an unsupported type, a text file
Uploads ==
    {[supported |-> FALSE, parsed |-> FALSE, content |-> << >>],
     [supported |-> TRUE, parsed |-> TRUE, content |-> <<"u">>]}
\* chart payloads of question/visualize: a JSON payload, a missing one
Charts ==
    {[data |-> <<"{", "\"k\"", ":", "1", "}">>, type |-> <<"bar">>, json |-> TRUE],
     [data |-> << >>, type |-> <<"bar">>, json |-> FALSE]}
GatewayOutcomes ==
    {[type |-> "ok", response |-> <<"a">>],
     [type |-> "ok", response |-> << >>],
     [type |-> "raise", msg |-> <<"boom">>]}
\* the files table of an initial state: session 1 without a file, with one
\* file, or with a file that has no file_contents row followed by one that has
FileTables ==
    {<< >>,
     <<[session_id |-> 1, content |-> None],
       [session_id |-> 1, content |-> <<"e", "f">>]>>}

BoundedSeqs(S, n) == UNION {[1..k -> S] : k \in 0..n}

Init ==
    /\ db_dialect = "postgresql"
    /\ sessions = InitSessions
    /\ files \in FileTables
    /\ questions = << >>
    /\ requests = << >>
    /\ orm = NoOrm
    /\ auth = NoAuth

Next ==
    \/ \E u \in RequestUsers, sid \in SessionIds, l \in Limits,
          gw \in GatewayOutcomes :
          AskQuestion(u, sid, Q_SHORT, l, gw, TRUE) /\ UNCHANGED <<orm, auth>>
    \/ \E u \in RequestUsers, sid \in SessionIds, q \in Questions, l \in Limits :
          StreamQuestionAnswer(u, sid, q, l) /\ UNCHANGED <<orm, auth>>
    \/ \E u \in RequestUsers, sid \in SessionIds, up \in Uploads, st \in {"both", "none"},
          gw \in GatewayOutcomes :
          AskQuestionWithFile(u, sid, Q_SHORT, up, st, gw) /\ UNCHANGED <<orm, auth>>
    \/ \E u \in RequestUsers, sid \in SessionIds, ch \in Charts :
          VisualizeQuestion(u, sid, Q_SHORT, <<"v">>, ch) /\ UNCHANGED <<orm, auth>>
    \/ \E r \in 1..MaxRequests : StreamToken(r) /\ UNCHANGED <<orm, auth>>
    \/ \E r \in 1..MaxRequests : StreamGatewayRaise(r, <<"boom">>) /\ UNCHANGED <<orm, auth>>
    \/ \E r \in 1..MaxRequests, ok \in BOOLEAN : StreamEnd(r, ok) /\ UNCHANGED <<orm, auth>>
    \/ \E r \in 1..MaxRequests : StreamCancel(r) /\ UNCHANGED <<orm, auth>>

Spec == Init /\ [][Next]_vars

----------------------------------------------------------------------------
(* Properties of the streamed and the synchronous answer path (Spec)       *)

RequestIds == 1..Len(requests)
StreamRequests == {r \in RequestIds : requests[r].kind = "stream"}
AskRequests == {r \in RequestIds : requests[r].kind = "ask"}

\* the fragments of a stream whose Gateway failed after k chunks: the k
\* chunks, then the error fragment of answer_question_stream
FailedStreamFragments(k) == [i \in 1..(k + 1) |->
                                IF i <= k THEN ChunkContent(i) ELSE STREAM_ERROR]

\* C1 as stated: once the fragment sequence of a stream is exhausted, exactly
\* one Turn has been written for the request, with the original question and
\* the full accumulated text.
C1_ExactlyOneTurnWritten ==
    \A r \in StreamRequests :
        requests[r].status = "done" =>
            /\ Len(TurnsOf(r)) = 1
            /\ TurnsOf(r)[1].question_text = requests[r].question
            /\ TurnsOf(r)[1].answer_text = requests[r].complete_answer

\* C1 amended: once the fragment sequence of a stream is exhausted, exactly
\* one Turn write has been attempted for the request; the Turn Log holds one
\* Turn of the request when that write succeeded and none when it failed,
\* never two; the Turn has the session, the original question and the full
\* accumulated text of the request.
C1_OneWriteAttempted ==
    \A r \in StreamRequests :
        /\ Len(TurnsOf(r)) <= 1
        /\ requests[r].status = "done" =>
              /\ requests[r].writes = 1
              /\ Len(TurnsOf(r)) = requests[r].written
              /\ \A i \in 1..Len(TurnsOf(r)) :
                    /\ TurnsOf(r)[i].session_id = requests[r].session_id
                    /\ TurnsOf(r)[i].question_text = requests[r].question
                    /\ TurnsOf(r)[i].answer_text = requests[r].complete_answer

\* a stream whose Gateway failed after one chunk is exhausted and its Turn is
\* in the Turn Log
C1_Witness ==
    \E r \in StreamRequests :
        /\ requests[r].status = "done"
        /\ requests[r].gw_raised
        /\ Len(requests[r].delivered) >= 2
        /\ Len(TurnsOf(r)) = 1

\* C2: the answer of the Turn persisted for a stream is the concatenation, in
\* order, of the fragments the caller received; a stream whose Gateway failed
\* after k chunks delivered the k chunks and then the error fragment, and
\* that whole text is the answer.
C2_PersistedEqualsDelivered ==
    \A r \in StreamRequests :
        /\ \A i \in 1..Len(TurnsOf(r)) :
              TurnsOf(r)[i].answer_text = Flatten(requests[r].delivered)
        /\ requests[r].gw_raised =>
              requests[r].delivered =
                  FailedStreamFragments(Len(requests[r].delivered) - 1)

\* the Turn of a stream that failed after a chunk is persisted
C2_Witness ==
    \E r \in StreamRequests :
        /\ requests[r].gw_raised
        /\ Len(requests[r].delivered) >= 2
        /\ Len(TurnsOf(r)) = 1
        /\ TurnsOf(r)[1].answer_text = ChunkContent(1) \o STREAM_ERROR

\* C3: a synchronous request whose Gateway call raised still completed
\* without an error and wrote exactly one Turn, in its session, with a
\* non-null answer (the answer it returned).
C3_TurnDespiteGatewayFailure ==
    \A r \in AskRequests :
        requests[r].gw_raised =>
            /\ requests[r].status = "ok"
            /\ Len(TurnsOf(r)) = 1
            /\ TurnsOf(r)[1].session_id = requests[r].session_id
            /\ TurnsOf(r)[1].question_text = requests[r].question
            /\ TurnsOf(r)[1].answer_text # None
            /\ TurnsOf(r)[1].answer_text = requests[r].answer

\* the Gateway raised for a request on a session with documents
C3_Witness ==
    \E r \in AskRequests :
        /\ requests[r].gw_raised
        /\ Len(requests[r].file_contents) > 0
        /\ Len(TurnsOf(r)) = 1

\* C4 as stated: a stream the caller cancelled has still run its Turn write
\* once, as has a stream that ended.
C4_WriteRunsOnCancellation ==
    \A r \in StreamRequests :
        \/ requests[r].status = "done"
        \/ requests[r].status = "cancelled" /\ Len(requests[r].delivered) >= 1
        => requests[r].writes = 1

\* C5: no Turn of the Turn Log has a null answer, and a stream that is still
\* in flight has no Turn yet.
C5_NoTurnWithoutAnswer ==
    /\ \A i \in 1..Len(questions) : questions[i].answer_text # None
    /\ \A r \in StreamRequests :
          requests[r].status = "streaming" => Len(TurnsOf(r)) = 0

\* a stream is in flight, has forwarded a fragment, and the Turn Log holds a
\* Turn of an earlier request
C5_Witness ==
    \E r \in StreamRequests :
        /\ requests[r].status = "streaming"
        /\ Len(requests[r].delivered) >= 1
        /\ Len(questions) >= 1

\* C10 as stated: a synchronous request on a session without documents sends
\* the empty context and returns a non-empty answer without failing.
C10_EmptySessionAnswers ==
    \A r \in AskRequests :
        (requests[r].status # "not_found" /\ Len(requests[r].file_contents) = 0) =>
            /\ requests[r].status = "ok"
            /\ \A i \in 1..Len(requests[r].gw_calls) :
                  requests[r].gw_calls[i].context = << >>
            /\ requests[r].answer # None
            /\ Len(requests[r].answer) > 0

----------------------------------------------------------------------------
(* History assembly over any Turn Log the schema permits (SpecHistory)     *)

TurnSymbols == <<"t1", "t2", "t3", "t4", "t5", "t6", "t7", "t8", "t9">>
\* a Turn of session 1 with an answer, a Turn of session 1 whose answer_text
\* is NULL (the column is nullable), a Turn of session 2 with an answer
TurnKinds == {"answered", "unanswered", "other"}

\* the Turn Log with one Turn per kind of ks, in creation order
LogOf(ks) ==
    [i \in 1..Len(ks) |->
        [id |-> i,
         session_id |-> IF ks[i] = "other" THEN 2 ELSE 1,
         question_text |-> <<"q", TurnSymbols[i]>>,
         answer_text |-> IF ks[i] = "unanswered" THEN None
                         ELSE <<"a", TurnSymbols[i]>>,
         chart_data |-> None,
         req |-> 0]]

HistoryLimits == {NoInt} \cup {SomeInt(n) : n \in (0 - 2)..(MaxLog + 1)}

InitHistory ==
    /\ db_dialect \in Dialects
    /\ sessions = InitSessions
    /\ files = << >>
    /\ questions \in {LogOf(ks) : ks \in BoundedSeqs(TurnKinds, MaxLog)}
    /\ requests = << >>
    /\ orm = NoOrm
    /\ auth = NoAuth

\* one question request, synchronous or streamed, on session 1
NextHistory ==
    /\ Len(requests) = 0
    /\ \/ \E l \in HistoryLimits :
             AskQuestion(1, 1, Q_SHORT, l, [type |-> "ok", response |-> <<"a">>], TRUE)
       \/ \E l \in HistoryLimits : StreamQuestionAnswer(1, 1, Q_SHORT, l)
    /\ UNCHANGED <<orm, auth>>

SpecHistory == InitHistory /\ [][NextHistory]_vars

\* the Turns of the request's session that had an answer when request r ran
\* its history query, in creation order
PriorAnswered(r) ==
    SelectSeq(SubSeq(questions, 1, requests[r].seen_log),
              LAMBDA t : t.session_id = requests[r].session_id
                         /\ t.answer_text # None)

\* the limit request r asked for, 5 when it gave none
RequestedLimit(r) ==
    IF requests[r].history_limit = NoInt THEN DEFAULT_HISTORY_LIMIT
    ELSE requests[r].history_limit[1]

\* the requests that ran the history query for a session of theirs
HistoryRequests ==
    {r \in RequestIds : requests[r].kind \in {"ask", "stream"}
                        /\ requests[r].status # "not_found"}

\* C6: for a session with N answered Turns and a limit k >= 0, the history of
\* a request (synchronous or streamed) has min(N, k) items: the min(N, k)
\* most recently created answered Turns of the session, oldest first.
C6_HistoryBound ==
    \A r \in HistoryRequests :
        LET prior == PriorAnswered(r)
            k == RequestedLimit(r)
            n == Min(Len(prior), k)
            hist == requests[r].conversation_history
        IN  k >= 0 =>
              /\ requests[r].status # "server_error"
              /\ Len(hist) = n
              /\ \A i \in 1..n :
                    /\ hist[i].turn = prior[Len(prior) - n + i].id
                    /\ hist[i].question = prior[Len(prior) - n + i].question_text
                    /\ hist[i].answer = prior[Len(prior) - n + i].answer_text

\* a streamed request with limit 2 on a session with more than 2 answered
\* Turns got the 2 most recent ones
C6_Witness ==
    \E r \in HistoryRequests :
        /\ requests[r].kind = "stream"
        /\ RequestedLimit(r) = 2
        /\ Len(PriorAnswered(r)) > 2
        /\ Len(requests[r].conversation_history) = 2

\* C7: no item of a request's history comes from a Turn whose answer is null,
\* whatever the limit; and Turns without an answer do not use up the limit: a
\* session with at least k answered Turns gives k items (k >= 0).
C7_NoUnansweredInHistory ==
    \A r \in HistoryRequests :
        LET hist == requests[r].conversation_history
        IN  /\ \A i \in 1..Len(hist) :
                  /\ questions[hist[i].turn].answer_text # None
                  /\ hist[i].answer # None
            /\ (RequestedLimit(r) >= 0 /\ requests[r].status # "server_error"
                /\ Len(PriorAnswered(r)) >= RequestedLimit(r))
                  => Len(hist) = RequestedLimit(r)

\* the most recent Turn of the session has no answer, an older one has, and
\* the request's history is the older one
C7_Witness ==
    \E r \in HistoryRequests :
        /\ requests[r].seen_log >= 2
        /\ questions[requests[r].seen_log].session_id = 1
        /\ questions[requests[r].seen_log].answer_text = None
        /\ RequestedLimit(r) = 1
        /\ Len(requests[r].conversation_history) = 1

\* C8 as stated: a request with a limit of 0 or less is answered, with an
\* empty history; a request without a limit uses 5.
C8_NonPositiveLimitIsEmpty ==
    \A r \in HistoryRequests :
        /\ RequestedLimit(r) <= 0 =>
              /\ requests[r].status # "server_error"
              /\ requests[r].conversation_history = << >>
        /\ requests[r].history_limit = NoInt =>
              Len(requests[r].conversation_history)
                  = Min(Len(PriorAnswered(r)), DEFAULT_HISTORY_LIMIT)

----------------------------------------------------------------------------
(* Context truncation over long documents (SpecContext)                    *)

\* a document of n characters, not all the same
DocOfLen(n) == [i \in 1..n |-> IF i % 3 = 0 THEN "y" ELSE "x"]

\* lengths around the limit, alone and in pairs joined by two characters
ContextDocs ==
    {DocOfLen(n) : n \in {0, 1, CONTEXT_LIMIT \div 2 - 1, CONTEXT_LIMIT - 3,
                          CONTEXT_LIMIT - 1, CONTEXT_LIMIT, CONTEXT_LIMIT + 1}}

InitContext ==
    /\ db_dialect = "postgresql"
    /\ sessions = InitSessions
    /\ files \in BoundedSeqs([session_id : {1}, content : ContextDocs], MaxCtxFiles)
    /\ questions = << >>
    /\ requests = << >>
    /\ orm = NoOrm
    /\ auth = NoAuth

\* one question request on session 1, carried to its model call
NextContext ==
    \/ /\ Len(requests) = 0
       /\ \/ \E gw \in GatewayOutcomes : AskQuestion(1, 1, Q_SHORT, NoInt, gw, TRUE)
          \/ StreamQuestionAnswer(1, 1, Q_SHORT, NoInt)
          \/ \E doc \in ContextDocs :
                AskQuestionWithFile(1, 1, Q_SHORT,
                    [supported |-> TRUE, parsed |-> TRUE, content |-> doc],
                    "none", [type |-> "ok", response |-> <<"a">>])
       /\ UNCHANGED <<orm, auth>>
    \/ StreamEnd(1, TRUE) /\ UNCHANGED <<orm, auth>>

SpecContext == InitContext /\ [][NextContext]_vars

\* the context a request assembled: the contents of the session's files
\* joined by a blank line (the uploaded file's content for question/with-file)
AssembledContext(r) == Join(requests[r].file_contents, <<"\n", "\n">>)

\* C9: the context of every model call is the prefix of the assembled context
\* of length min(len, 10000): unchanged when shorter than the limit, cut to
\* exactly the limit when longer; and truncating it again changes nothing.
C9_ContextTruncated ==
    \A r \in RequestIds :
        \A i \in 1..Len(requests[r].gw_calls) :
            LET sent == requests[r].gw_calls[i].context
                full == AssembledContext(r)
            IN  /\ Len(sent) = Min(Len(full), CONTEXT_LIMIT)
                /\ sent = SubSeq(full, 1, Len(sent))
                /\ Len(full) <= CONTEXT_LIMIT => sent = full
                /\ TruncateContext(sent) = sent

\* a streamed request sent a context cut to the limit, and the assembled
\* context was longer
C9_Witness ==
    \E r \in StreamRequests :
        /\ Len(requests[r].gw_calls) = 1
        /\ Len(AssembledContext(r)) > CONTEXT_LIMIT
        /\ Len(requests[r].gw_calls[1].context) = CONTEXT_LIMIT

----------------------------------------------------------------------------
(* One request through each branch of the two answer paths (SpecBranches)  *)

\* more than 100 characters, a "?" with 99 characters after it
Q_PASTED_SPACED == <<"w", "?", " ">> \o Fill(PASTED_TEXT_MIN - 2, "x")
\* more than 100 characters, a "?" with exactly 50 characters after it
Q_PASTED_SHORT_TAIL ==
    Fill(PASTED_TEXT_MIN - PASTED_REMAINDER_MIN, "x") \o <<"?">>
        \o Fill(PASTED_REMAINDER_MIN, "y")
\* more than 100 characters, no "?"
Q_PASTED_PLAIN == Fill(PASTED_TEXT_MIN + 1, "x")
\* more than 100 characters, two "?"
Q_PASTED_TWICE ==
    <<"w", "?">> \o Fill(PASTED_REMAINDER_MIN + 10, "x") \o <<"?">>
        \o Fill(PASTED_REMAINDER_MIN - 10, "y")
\* exactly 100 characters, a "?" with 98 characters after it
Q_AT_LIMIT == <<"w", "?">> \o Fill(PASTED_TEXT_MIN - 2, "x")
\* outcomes of the Gateway call: those of chain.invoke (a response with a
\* Sources section among them), and pairs whose sources value is no list
BranchOutcomes ==
    GatewayOutcomes
    \cup {[type |-> "ok",
           response |-> <<"a", "Sources:", "s", "\n", " ", "\n", "t", " ">>]}
    \cup {[type |-> "returns", answer |-> <<"a">>, sources |-> v] :
             v \in {PyNone, PyStr(<< >>), PyInt(0), PyStr(<<"s">>), PyInt(7),
                    PyList(<<<<"s">>>>)}}

BranchQuestions ==
    {Q_SHORT, Q_PASTED, Q_PASTED_SPACED, Q_PASTED_SHORT_TAIL, Q_PASTED_PLAIN,
     Q_PASTED_TWICE, Q_AT_LIMIT}

\* session 1 of the caller, session 2 of another user, session 3 that does
\* not exist
BranchSessions == {1, 2, 3}

\* the Turn Log is empty, or holds a Turn of session 1 and one of session 2
InitBranches ==
    /\ db_dialect = "postgresql"
    /\ sessions = InitSessions
    /\ files \in FileTables
    /\ questions \in {<< >>, LogOf(<<"answered", "other">>)}
    /\ requests = << >>
    /\ orm = NoOrm
    /\ auth = NoAuth

\* one question request of user 1, synchronous or streamed, and its stream
NextBranches ==
    \/ /\ Len(requests) = 0
       /\ \/ \E sid \in BranchSessions, q \in BranchQuestions, gw \in BranchOutcomes,
                   ok \in BOOLEAN :
                AskQuestion(1, sid, q, NoInt, gw, ok)
          \/ \E sid \in BranchSessions, q \in BranchQuestions :
                StreamQuestionAnswer(1, sid, q, NoInt)
       /\ UNCHANGED <<orm, auth>>
    \/ StreamToken(1) /\ UNCHANGED <<orm, auth>>
    \/ StreamGatewayRaise(1, <<"boom">>) /\ UNCHANGED <<orm, auth>>
    \/ \E ok \in BOOLEAN : StreamEnd(1, ok) /\ UNCHANGED <<orm, auth>>
    \/ StreamCancel(1) /\ UNCHANGED <<orm, auth>>

SpecBranches == InitBranches /\ [][NextBranches]_vars

\* a db.commit() of the request raised
StoreFailed(r) == requests[r].written < requests[r].writes

\* a question that the pasted-text rule splits: longer than 100 characters,
\* with more than 50 characters after its first "?"
SplitsAsPastedText(q) ==
    /\ Len(q) > 100
    /\ \E i \in 1..Len(q) : q[i] = "?"
    /\ Len(q) - IndexOf(q, "?") > 50

\* C11 as stated: a synchronous request on a session without documents whose
\* question is longer than 100 characters and has more than 50 characters
\* after its first "?" calls the Gateway with the text up to and including
\* that "?" as the question and the text after it as the context, and the
\* Turn it stores keeps the original question.
C11_SyncPastedTextSplit ==
    \A r \in AskRequests :
        (/\ requests[r].status = "ok"
         /\ Len(requests[r].file_contents) = 0
         /\ SplitsAsPastedText(requests[r].question)) =>
            LET q == requests[r].question
                cut == IndexOf(q, "?")
            IN  /\ Len(requests[r].gw_calls) >= 1
                /\ requests[r].gw_calls[1].question = SubSeq(q, 1, cut)
                /\ requests[r].gw_calls[1].context = Strip(Suffix(q, cut))
                /\ Len(TurnsOf(r)) = 1
                /\ TurnsOf(r)[1].question_text = q

----------------------------------------------------------------------------
(* History over Turns that carry a chart (SpecCharts)                      *)

\* chart payloads: an object, a list, the empty object, the JSON null, a
\* missing payload, a payload that is no JSON
ChartPayloads ==
    {[data |-> <<"{", "\"k\"", ":", "1", "}">>, type |-> <<"bar">>, json |-> TRUE],
     [data |-> <<"[", "1", ",", "true", "]">>, type |-> <<"pie">>, json |-> TRUE],
     [data |-> <<"{", "}">>, type |-> <<"bar">>, json |-> TRUE],
     [data |-> <<"null">>, type |-> <<"bar">>, json |-> TRUE],
     [data |-> << >>, type |-> <<"bar">>, json |-> FALSE],
     [data |-> <<"{">>, type |-> <<"bar">>, json |-> FALSE]}

InitCharts ==
    /\ db_dialect = "postgresql"
    /\ sessions = InitSessions
    /\ files \in FileTables
    /\ questions = << >>
    /\ requests = << >>
    /\ orm = NoOrm
    /\ auth = NoAuth

\* visualizations are saved and questions asked, on session 1
NextCharts ==
    \/ \E ch \in ChartPayloads :
          VisualizeQuestion(1, 1, Q_SHORT, <<"v">>, ch) /\ UNCHANGED <<orm, auth>>
    \/ /\ AskQuestion(1, 1, Q_SHORT, NoInt, [type |-> "ok", response |-> <<"a">>], TRUE)
       /\ UNCHANGED <<orm, auth>>
    \/ StreamQuestionAnswer(1, 1, Q_SHORT, NoInt) /\ UNCHANGED <<orm, auth>>

SpecCharts == InitCharts /\ [][NextCharts]_vars

\* C13 as stated: in the history of every request, synchronous or streamed,
\* the item of a Turn that carries chart data has as its answer the Turn's
\* answer text followed by a serialized form of the chart payload, and the
\* item of a Turn without chart data has the plain answer text.
C13_ChartInHistory ==
    \A r \in RequestIds :
        requests[r].kind \in {"ask", "stream"} =>
            \A i \in 1..Len(requests[r].conversation_history) :
                LET item == requests[r].conversation_history[i]
                    turn == questions[item.turn]
                    plain == Len(turn.answer_text)
                IN  IF turn.chart_data = None
                    THEN item.answer = turn.answer_text
                    ELSE /\ Len(item.answer) > plain
                         /\ SubSeq(item.answer, 1, plain) = turn.answer_text
                         /\ \E k \in (plain + 1)..Len(item.answer) :
                               SubSeq(item.answer, k, Len(item.answer))
                                   = ChartRepr(turn.chart_data)

\* the session of request r is missing or belongs to another user
ForeignSession(req) ==
    \/ req.session_id \notin DOMAIN sessions
    \/ sessions[req.session_id] # req.user

\* C14: a question request, synchronous or streamed, on a session that does
\* not exist or is not the caller's is rejected as not found; the step that
\* rejects it leaves the Turn Log as it was, and the request has made no
\* model call, delivered no fragment and written no Turn.
C14_RejectedWithoutCallOrTurn ==
    [][\A r \in 1..Len(requests') :
          (requests'[r].kind \in {"ask", "stream"} /\ ForeignSession(requests'[r])) =>
              /\ requests'[r].status = "not_found"
              /\ requests'[r].gw_calls = << >>
              /\ requests'[r].delivered = << >>
              /\ requests'[r].writes = 0
              /\ questions' = questions]_vars

\* a streamed request on a session that belongs to another user was
\* rejected while the Turn Log held Turns, one of them of that session
C14_Witness ==
    \E r \in StreamRequests :
        /\ requests[r].session_id \in DOMAIN sessions
        /\ sessions[requests[r].session_id] # requests[r].user
        /\ requests[r].status = "not_found"
        /\ \E i \in 1..Len(questions) :
              questions[i].session_id = requests[r].session_id

\* the failure detail (the message of the exception the Gateway raised in
\* this model) occurs in the text
QuotesFailure(text) == \E i \in 1..Len(text) : text[i] = "boom"

C16_FailedWriteOnlyLogged ==
    [][\A r \in 1..Len(requests) :
          (/\ requests[r].kind = "stream"
           /\ requests'[r].writes = requests[r].writes + 1
           /\ questions' = questions) =>
              /\ requests'[r].status = "done"
              /\ requests'[r].delivered = requests[r].delivered
              /\ requests'[r].complete_answer = Flatten(requests[r].delivered)
              /\ requests'[r].written = 0
              /\ \A i \in 1..Len(questions') : questions'[i].req # r]_vars

\* a stream delivered a fragment, its Turn write failed, and it has ended
\* without a Turn
C16_Witness ==
    \E r \in StreamRequests :
        /\ requests[r].status = "done"
        /\ requests[r].writes = 1
        /\ requests[r].written = 0
        /\ Len(requests[r].delivered) >= 1
        /\ Len(TurnsOf(r)) = 0

\* the question requests on a session of the caller
OwnedRequests ==
    {r \in RequestIds : requests[r].kind \in {"ask", "stream"}
                        /\ ~ForeignSession(requests[r])}

C18_GatewayCalledAtMostOnce ==
    \A r \in RequestIds :
        requests[r].kind \in {"ask", "stream"} =>
            /\ Len(requests[r].gw_calls) <= 1
            /\ requests[r].gw_raised =>
                  /\ Len(requests[r].gw_calls) = 1
                  /\ (requests[r].kind = "ask" /\ ~StoreFailed(r)) =>
                        requests[r].answer
                            \in {GENERAL_FALLBACK, ERROR_PREFIX \o <<"boom">>}
                  /\ requests[r].kind = "stream" =>
                        /\ requests[r].inner = "closed"
                        /\ requests[r].delivered[Len(requests[r].delivered)]
                               = STREAM_ERROR

\* a stream on the pasted-text branch whose Gateway failed has ended after one
\* call
C18_Witness ==
    \E r \in StreamRequests :
        /\ requests[r].branch = "pasted"
        /\ requests[r].gw_raised
        /\ requests[r].status = "done"
        /\ Len(requests[r].gw_calls) = 1

----------------------------------------------------------------------------
(* One client sending its requests one after another (SpecSequential)      *)

\* no response is being streamed
NoStreamOpen == \A r \in RequestIds : requests[r].status # "streaming"

\* the client sends a request on session 1 only when the one before it has
\* completed
NextSequential ==
    \/ /\ NoStreamOpen
       /\ \/ \E gw \in GatewayOutcomes : AskQuestion(1, 1, Q_SHORT, NoInt, gw, TRUE)
          \/ \E q \in Questions : StreamQuestionAnswer(1, 1, q, NoInt)
          \/ \E up \in Uploads, gw \in GatewayOutcomes :
                AskQuestionWithFile(1, 1, Q_SHORT, up, "both", gw)
          \/ \E ch \in Charts : VisualizeQuestion(1, 1, Q_SHORT, <<"v">>, ch)
       /\ UNCHANGED <<orm, auth>>
    \/ \E r \in 1..MaxRequests : StreamToken(r) /\ UNCHANGED <<orm, auth>>
    \/ \E r \in 1..MaxRequests : StreamGatewayRaise(r, <<"boom">>) /\ UNCHANGED <<orm, auth>>
    \/ \E r \in 1..MaxRequests, ok \in BOOLEAN : StreamEnd(r, ok) /\ UNCHANGED <<orm, auth>>
    \/ \E r \in 1..MaxRequests : StreamCancel(r) /\ UNCHANGED <<orm, auth>>

SpecSequential == Init /\ [][NextSequential]_vars

\* C19: when a client sends its requests on one session one after another,
\* the Turns are in the Turn Log in the order the requests arrived: a Turn
\* created earlier (smaller id, earlier place) is of an earlier request.
C19_TurnsInArrivalOrder ==
    \A i, j \in 1..Len(questions) :
        (i < j /\ questions[i].session_id = questions[j].session_id) =>
            /\ questions[i].req < questions[j].req
            /\ questions[i].id < questions[j].id

\* a streamed request and then a synchronous one have both written their Turn
C19_Witness ==
    /\ Len(requests) >= 2
    /\ requests[1].kind = "stream"
    /\ requests[2].kind = "ask"
    /\ Len(TurnsOf(1)) = 1
    /\ Len(TurnsOf(2)) = 1

----------------------------------------------------------------------------
(* Two question requests at the same time in one server process            *)
(* (SpecConcurrent): core/database.py and the handlers' use of db          *)

\* SessionLocal = scoped_session(sessionmaker(...)); db = SessionLocal():
\* one Session object per thread.  get_db runs in a worker thread of the
\* server's pool, and a thread that is idle is used again, so two requests
\* whose get_db ran on the same thread hold the same Session object (1), and
\* two whose get_db ran at the same moment hold different ones.
SessionObjects == {1, 2}

\* when get_db's finally runs for a request
ExitTimings == {"before_response", "after_response"}

\* Session.commit() with expire_on_commit (the sessionmaker's default): every
\* instance in the Session is expired
Expire(state) == IF state = "attached" THEN "expired" ELSE state

\* Session.close(): every instance is removed from the Session; one that was
\* expired can no longer be loaded ("lost": reading an attribute of it raises
\* DetachedInstanceError)
Expunge(state) ==
    IF state = "attached" THEN "detached"
    ELSE IF state = "expired" THEN "lost"
    ELSE state

\* an expired instance that is still in the Session is loaded again when an
\* attribute of it is read or a query returns its row
Refresh(state) == IF state = "expired" THEN "attached" ELSE state

\* the requests' instances after db.query(...) ran for a new request on
\* Session object d: the rows of the session and of its file contents come
\* from the identity map of d (the instances other requests hold in d are
\* these same instances, loaded again if expired)
SessionQuery(of, d) ==
    Append([i \in DOMAIN of |->
               IF of[i].db = d
               THEN [of[i] EXCEPT !.session = Refresh(of[i].session),
                                  !.contents = Refresh(of[i].contents)]
               ELSE of[i]],
           [db |-> d, session |-> "attached", contents |-> "attached",
            closed |-> FALSE])

\* the requests' instances after db.commit() on Session object d
SessionCommit(of, d) ==
    [i \in DOMAIN of |->
        IF of[i].db = d
        THEN [of[i] EXCEPT !.session = Expire(of[i].session),
                           !.contents = Expire(of[i].contents)]
        ELSE of[i]]

\* the requests' instances after db.close() on Session object d
SessionClose(of, d) ==
    [i \in DOMAIN of |->
        IF of[i].db = d
        THEN [of[i] EXCEPT !.session = Expunge(of[i].session),
                           !.contents = Expunge(of[i].contents)]
        ELSE of[i]]

\* session.id is read by request r
ReadSession(of, r) ==
    [i \in DOMAIN of |->
        IF of[i].db = of[r].db
        THEN [of[i] EXCEPT !.session = Refresh(of[i].session)]
        ELSE of[i]]

\* fc.content is read by request r
ReadContents(of, r) ==
    [i \in DOMAIN of |->
        IF of[i].db = of[r].db
        THEN [of[i] EXCEPT !.contents = Refresh(of[i].contents)]
        ELSE of[i]]

\* what generate_stream reads when it starts, before its try block:
\* session.id for the log line of the general-knowledge branch, fc.content
\* for the join of the documents branch, nothing in the pasted-text branch
GeneratorStarts(r) == requests[r].inner = "idle"
StartFails(r) ==
    /\ GeneratorStarts(r)
    /\ \/ requests[r].branch = "general" /\ orm.of[r].session = "lost"
       \/ requests[r].branch = "docs" /\ orm.of[r].contents = "lost"
AfterStart(r) ==
    IF GeneratorStarts(r) /\ requests[r].branch = "general"
    THEN ReadSession(orm.of, r)
    ELSE IF GeneratorStarts(r) /\ requests[r].branch = "docs"
    THEN ReadContents(orm.of, r)
    ELSE orm.of

\* the body of a streamed response is produced after get_db's finally when
\* that runs before the response, and before it otherwise
GeneratorReady(r) == orm.exit = "before_response" => orm.of[r].closed

\* POST /analysis/question/stream of user 1 on session 1, get_db having run
\* on the thread of Session object d
SharedStreamQuestionAnswer(d, q) ==
    /\ StreamQuestionAnswer(1, 1, q, NoInt)
    /\ orm' = [orm EXCEPT !.of = SessionQuery(@, d)]
    /\ UNCHANGED auth

\* POST /analysis/question of user 1 on session 1: the handler runs without
\* suspending, from its queries to its db.commit()
SharedAskQuestion(d, gw) ==
    /\ AskQuestion(1, 1, Q_SHORT, NoInt, gw, TRUE)
    /\ orm' = [orm EXCEPT !.of = SessionCommit(SessionQuery(@, d), d)]
    /\ UNCHANGED auth

\* get_db: finally: db.close(), for request r
GetDbClose(r) ==
    /\ r \in 1..Len(requests)
    /\ ~orm.of[r].closed
    /\ IF orm.exit = "before_response" /\ requests[r].kind = "stream"
       THEN requests[r].status = "streaming" /\ requests[r].inner = "idle"
       ELSE requests[r].status # "streaming"
    /\ orm' = [orm EXCEPT !.of =
           [SessionClose(@, @[r].db) EXCEPT ![r].closed = TRUE]]
    /\ UNCHANGED <<db_dialect, sessions, files, questions, requests, auth>>

\* the next chunk of stream r
SharedStreamToken(r) ==
    /\ r \in 1..Len(requests)
    /\ GeneratorReady(r)
    /\ ~StartFails(r)
    /\ StreamToken(r)
    /\ orm' = [orm EXCEPT !.of = AfterStart(r)]
    /\ UNCHANGED auth

\* the fragment loop of stream r ends and the Turn is stored: session.id is
\* read inside the try; the database itself is available, so the write fails
\* exactly when that read raises
SharedStreamEnd(r) ==
    /\ r \in 1..Len(requests)
    /\ GeneratorReady(r)
    /\ ~StartFails(r)
    /\ LET of == AfterStart(r)
           readable == of[r].session # "lost"
       IN  /\ StreamEnd(r, readable)
           /\ orm' = [orm EXCEPT !.of =
                  IF readable THEN SessionCommit(ReadSession(of, r), of[r].db)
                  ELSE of]
    /\ UNCHANGED auth

\* generate_stream raises when it starts (DetachedInstanceError outside any
\* try): the response breaks off and nothing is stored
StreamAbort(r) ==
    /\ r \in 1..Len(requests)
    /\ requests[r].status = "streaming"
    /\ GeneratorReady(r)
    /\ StartFails(r)
    /\ requests' = [requests EXCEPT ![r] =
           [@ EXCEPT !.status = "server_error", !.inner = "closed"]]
    /\ UNCHANGED <<db_dialect, sessions, files, questions, orm, auth>>

InitConcurrent ==
    /\ db_dialect = "postgresql"
    /\ sessions = InitSessions
    /\ files \in FileTables
    /\ questions = << >>
    /\ requests = << >>
    /\ orm \in {[exit |-> e, of |-> << >>] : e \in ExitTimings}
    /\ auth = NoAuth

NextConcurrent ==
    \/ \E d \in SessionObjects, q \in Questions : SharedStreamQuestionAnswer(d, q)
    \/ \E d \in SessionObjects :
          SharedAskQuestion(d, [type |-> "ok", response |-> <<"a">>])
    \/ \E r \in 1..MaxRequests : GetDbClose(r)
    \/ \E r \in 1..MaxRequests : SharedStreamToken(r)
    \/ \E r \in 1..MaxRequests : SharedStreamEnd(r)
    \/ \E r \in 1..MaxRequests : StreamAbort(r)

SpecConcurrent == InitConcurrent /\ [][NextConcurrent]_vars

\* the answer request r produced
AnswerOf(r) ==
    IF requests[r].kind = "stream" THEN requests[r].complete_answer
    ELSE requests[r].answer

\* request r has ended
Ended(r) == requests[r].status # "streaming"

\* the history request r gave to the model is the snapshot of the Turn Log
\* taken when its handler ran: the last 5 answered Turns of then
HistoryIsSnapshot(r) ==
    LET prior == PriorAnswered(r)
        n == Min(Len(prior), DEFAULT_HISTORY_LIMIT)
        hist == requests[r].conversation_history
    IN  /\ Len(hist) = n
        /\ \A i \in 1..n : hist[i].turn = prior[Len(prior) - n + i].id
        /\ \A i \in 1..Len(requests[r].gw_calls) :
              requests[r].gw_calls[i].conversation_history =
                  ConversationMessages(hist)

\* C20 as stated: when question requests run at the same time on one
\* session, every request that has ended has its own Turn in the Turn Log,
\* with its question and its answer (no append lost or overwritten), under
\* every interleaving; and the history each gave to the model is the
\* snapshot taken when it started.
C20_BothTurnsInLog ==
    \A r \in RequestIds :
        /\ HistoryIsSnapshot(r)
        /\ Ended(r) =>
              /\ Len(TurnsOf(r)) = 1
              /\ TurnsOf(r)[1].question_text = requests[r].question
              /\ TurnsOf(r)[1].answer_text = AnswerOf(r)

----------------------------------------------------------------------------
(* Sessions deleted while uploads and questions are in flight              *)
(* (SpecLifecycle): api/sessions.py, api/files.py                          *)

\* ForeignKey("sessions.id") of questions.session_id and files.session_id at
\* the INSERT: PostgreSQL rejects a row whose session does not exist; the
\* SQLite engines are created without "PRAGMA foreign_keys=ON", so SQLite
\* accepts it
ForeignKeyAccepts(sid) == db_dialect = "sqlite" \/ sid \in DOMAIN sessions

\* DELETE /sessions/{session_id}: the session of the user is deleted, and
\* with it (cascade="all, delete-orphan") its files, their contents and its
\* questions; a session of another user or none is 404
DeleteSession(u, sid) ==
    /\ SessionOwned(u, sid)
    /\ sessions' = [s \in DOMAIN sessions \ {sid} |-> sessions[s]]
    /\ files' = SelectSeq(files, LAMBDA f : f.session_id # sid)
    /\ questions' = SelectSeq(questions, LAMBDA t : t.session_id # sid)
    /\ UNCHANGED <<db_dialect, requests, orm, auth>>

\* POST /files up to its first await (file.read): the session is looked up
UploadFile(u, sid) ==
    /\ Len(requests) < MaxRequests
    /\ LET base == NewRequest("upload", u, sid, << >>, NoInt)
       IN  requests' = Append(requests,
               [base EXCEPT !.status = IF SessionOwned(u, sid) THEN "uploading"
                                       ELSE "not_found"])
    /\ UNCHANGED <<db_dialect, sessions, files, questions, orm, auth>>

\* upload_file after the file was read and put into S3: File(session_id=
\* session_id, ...) is added and committed, then its FileContent.  A MIME
\* type that is not supported is answered with 400; an INSERT the database
\* rejects is caught by "except Exception" and answered with 500
UploadFileStore(r, upload) ==
    /\ r \in 1..Len(requests)
    /\ requests[r].status = "uploading"
    /\ LET sid == requests[r].session_id
       IN  IF ~upload.supported
           THEN /\ files' = files
                /\ requests' = [requests EXCEPT ![r] =
                       [@ EXCEPT !.status = "bad_request"]]
           ELSE IF ForeignKeyAccepts(sid)
           THEN /\ files' = Append(files, [session_id |-> sid,
                                           content |-> upload.content])
                /\ requests' = [requests EXCEPT ![r] = [@ EXCEPT !.status = "ok"]]
           ELSE /\ files' = files
                /\ requests' = [requests EXCEPT ![r] =
                       [@ EXCEPT !.status = "server_error"]]
    /\ UNCHANGED <<db_dialect, sessions, questions, orm, auth>>

\* the Turn write of a stream, whose commit succeeds when the database
\* accepts the row
StreamEndStored(r) ==
    /\ r \in 1..Len(requests)
    /\ StreamEnd(r, ForeignKeyAccepts(requests[r].session_id))
    /\ UNCHANGED <<orm, auth>>

InitLifecycle ==
    /\ db_dialect \in Dialects
    /\ sessions = InitSessions
    /\ files \in FileTables
    /\ questions \in {<< >>, LogOf(<<"answered", "other">>)}
    /\ requests = << >>
    /\ orm = NoOrm
    /\ auth = NoAuth

NextLifecycle ==
    \/ \E u \in {1, 2}, sid \in DOMAIN InitSessions : DeleteSession(u, sid)
    \/ \E sid \in DOMAIN InitSessions : UploadFile(1, sid)
    \/ \E r \in 1..MaxRequests, up \in Uploads : UploadFileStore(r, up)
    \/ \E sid \in DOMAIN InitSessions :
          /\ AskQuestion(1, sid, Q_SHORT, NoInt,
                         [type |-> "ok", response |-> <<"a">>], TRUE)
          /\ UNCHANGED <<orm, auth>>
    \/ \E sid \in DOMAIN InitSessions :
          StreamQuestionAnswer(1, sid, Q_SHORT, NoInt) /\ UNCHANGED <<orm, auth>>
    \/ \E r \in 1..MaxRequests : StreamToken(r) /\ UNCHANGED <<orm, auth>>
    \/ \E r \in 1..MaxRequests : StreamEndStored(r)

SpecLifecycle == InitLifecycle /\ [][NextLifecycle]_vars

\* C21 as stated: in every reachable state, with uploads and streams in
\* flight while sessions are deleted, every Turn and every Document
\* references an existing Session (a deleted Session keeps no Turn and no
\* Document, and none is recorded for it afterwards).
C21_RowsReferenceExistingSession ==
    /\ \A i \in 1..Len(questions) : questions[i].session_id \in DOMAIN sessions
    /\ \A i \in 1..Len(files) : files[i].session_id \in DOMAIN sessions

----------------------------------------------------------------------------
(* The history a synchronous request returns (SpecHistory)                 *)

\* C22: the conversation_history a synchronous request returns is the
\* history its one Gateway call was given; it holds no item of the Turn the
\* request itself wrote; and for a session without earlier answered Turns it
\* is empty.
C22_ReturnedHistoryIsGatewayHistory ==
    \A r \in AskRequests :
        requests[r].status = "ok" =>
            LET hist == requests[r].conversation_history
            IN  /\ Len(requests[r].gw_calls) = 1
                /\ requests[r].gw_calls[1].conversation_history =
                       ConversationMessages(hist)
                /\ \A i \in 1..Len(hist), j \in 1..Len(TurnsOf(r)) :
                       hist[i].turn # TurnsOf(r)[j].id
                /\ Len(PriorAnswered(r)) = 0 => hist = << >>

\* a synchronous request on a session with earlier answered Turns returned a
\* history that is not empty and wrote its Turn
C22_Witness ==
    \E r \in AskRequests :
        /\ requests[r].status = "ok"
        /\ Len(requests[r].conversation_history) > 1
        /\ Len(TurnsOf(r)) = 1

----------------------------------------------------------------------------
(* Accounts and access tokens (SpecAccounts): core/auth.py, api/auth.py,   *)
(* api/admin.py, api/users.py                                              *)

\* no token (the request carries none, or the response issues none)
NoToken == [sub |-> 0, exp |-> 0]

\* create_access_token(data={"sub": str(user.id)}): the token is determined
\* by the user id and the expiry time in whole seconds (now + 30 minutes,
\* written here as the second of issue), so two tokens made for a user in
\* the same second are the same token
create_access_token(uid) == [sub |-> uid, exp |-> auth.now]

\* is_token_blacklisted that finds no token
is_token_blacklisted_never(token) == FALSE

\* return token in token_blacklist
is_token_blacklisted(token) == token \in auth.token_blacklist

\* get_current_user followed by get_current_active_user: 401 for a revoked
\* token, for a token whose user does not exist and for an inactive user
get_current_user(token) ==
    IF is_token_blacklisted(token) THEN [status |-> 401, user |-> 0]
    ELSE IF token.sub \notin DOMAIN auth.users THEN [status |-> 401, user |-> 0]
    ELSE IF ~auth.users[token.sub].is_active THEN [status |-> 401, user |-> 0]
    ELSE [status |-> 200, user |-> token.sub]

\* get_current_admin_user: 403 for a user who is no admin
get_current_admin_user(token) ==
    IF get_current_user(token).status # 200 THEN get_current_user(token)
    ELSE IF ~auth.users[token.sub].is_admin
    THEN [status |-> 403, user |-> token.sub]
    ELSE get_current_user(token)

\* the response of an account request, kept as auth.last
Response(op, token, target, status, issued) ==
    [n |-> auth.last.n + 1, op |-> op, token |-> token, target |-> target,
     status |-> status, issued |-> issued]

\* the frame of the account requests
AccountFrame ==
    /\ auth.last.n < MaxAuthSteps
    /\ UNCHANGED <<db_dialect, sessions, files, questions, requests, orm>>

\* POST /auth/token with the email of user u and a password that is right
\* (pw_ok) or wrong
login_for_access_token(u, pw_ok) ==
    /\ AccountFrame
    /\ IF \/ u \notin DOMAIN auth.users
          \/ ~auth.users[u].hashed_password
          \/ ~pw_ok
       THEN auth' = [auth EXCEPT !.last = Response("login", NoToken, u, 401, NoToken)]
       ELSE IF ~auth.users[u].is_active
       THEN auth' = [auth EXCEPT !.last = Response("login", NoToken, u, 401, NoToken)]
       ELSE auth' = [auth EXCEPT
                !.issued = @ \cup {create_access_token(u)},
                !.last = Response("login", NoToken, u, 200, create_access_token(u))]

\* the user row with google_id g, 0 when there is none
GoogleUser(g) ==
    IF \E u \in DOMAIN auth.users : auth.users[u].google_id = g
    THEN CHOOSE u \in DOMAIN auth.users : auth.users[u].google_id = g
    ELSE 0

\* POST /auth/google with a verified Google token of account g.  With the
\* users table as models.py declares it (no google_id attribute) the query
\* raises and the handler answers 401; with the google_id column mapped the
\* user is looked up, created when missing, and given a token.  is_active is
\* not read.
login_with_google(g) ==
    /\ AccountFrame
    /\ IF ~auth.google_id_mapped
       THEN auth' = [auth EXCEPT
                !.last = Response("google", NoToken, GoogleUser(g), 401, NoToken)]
       ELSE IF GoogleUser(g) # 0
       THEN auth' = [auth EXCEPT
                !.issued = @ \cup {create_access_token(GoogleUser(g))},
                !.last = Response("google", NoToken, GoogleUser(g), 200,
                                  create_access_token(GoogleUser(g)))]
       ELSE auth' = [auth EXCEPT
                !.users = (auth.next_id :>
                              [is_active |-> TRUE, is_admin |-> FALSE,
                               hashed_password |-> FALSE, google_id |-> g,
                               full_name |-> "g"]) @@ @,
                !.next_id = @ + 1,
                !.issued = @ \cup {create_access_token(auth.next_id)},
                !.last = Response("google", NoToken, 0, 200,
                                  create_access_token(auth.next_id))]

\* POST /auth/logout with token t
logout(t) ==
    /\ AccountFrame
    /\ IF get_current_user(t).status # 200
       THEN auth' = [auth EXCEPT
                !.last = Response("logout", t, 0, get_current_user(t).status, NoToken)]
       ELSE auth' = [auth EXCEPT
                !.token_blacklist = @ \cup {t},
                !.logged_out = @ \cup {t},
                !.last = Response("logout", t, 0, 200, NoToken)]

\* any endpoint that depends on get_current_active_user (admin = FALSE) or
\* on get_current_admin_user (admin = TRUE) and leaves the accounts alone
AuthenticatedRequest(t, admin) ==
    /\ AccountFrame
    /\ auth' = [auth EXCEPT !.last =
           Response("request", t, 0,
                    IF admin THEN get_current_admin_user(t).status
                    ELSE get_current_user(t).status,
                    NoToken)]

\* PUT /users/me with a new full_name
update_user_profile(t, name) ==
    /\ AccountFrame
    /\ IF get_current_user(t).status # 200
       THEN auth' = [auth EXCEPT
                !.last = Response("profile", t, 0, get_current_user(t).status, NoToken)]
       ELSE auth' = [auth EXCEPT
                !.users[t.sub].full_name = name,
                !.last = Response("profile", t, 0, 200, NoToken)]

\* PUT /admin/users/{user_id}/deactivate and .../activate (active = the new
\* is_active): 400 when an admin deactivates their own account, 404 for a
\* user that does not exist
SetUserActive(t, target, active) ==
    /\ AccountFrame
    /\ LET op == IF active THEN "activate" ELSE "deactivate"
       IN  IF get_current_admin_user(t).status # 200
           THEN auth' = [auth EXCEPT !.last =
                    Response(op, t, target, get_current_admin_user(t).status, NoToken)]
           ELSE IF ~active /\ target = t.sub
           THEN auth' = [auth EXCEPT !.last = Response(op, t, target, 400, NoToken)]
           ELSE IF target \notin DOMAIN auth.users
           THEN auth' = [auth EXCEPT !.last = Response(op, t, target, 404, NoToken)]
           ELSE auth' = [auth EXCEPT
                    !.users[target].is_active = active,
                    !.last = Response(op, t, target, 200, NoToken)]

\* the users table without user u
WithoutUser(u) == [v \in DOMAIN auth.users \ {u} |-> auth.users[v]]

\* the admin accounts
Admins(users) == {u \in DOMAIN users : users[u].is_admin}

\* DELETE /users/me: the account of the caller is deleted
delete_user_account_me(t) ==
    /\ AccountFrame
    /\ IF get_current_user(t).status # 200
       THEN auth' = [auth EXCEPT !.last =
                Response("delete_me", t, 0, get_current_user(t).status, NoToken)]
       ELSE auth' = [auth EXCEPT
                !.users = WithoutUser(t.sub),
                !.last = Response("delete_me", t, t.sub, 204, NoToken)]

\* DELETE /users/profile: the account of the caller is deleted unless the
\* caller is an admin and at most one admin account exists (400)
delete_user_account(t) ==
    /\ AccountFrame
    /\ IF get_current_user(t).status # 200
       THEN auth' = [auth EXCEPT !.last =
                Response("delete_profile", t, 0, get_current_user(t).status, NoToken)]
       ELSE IF auth.users[t.sub].is_admin /\ Cardinality(Admins(auth.users)) <= 1
       THEN auth' = [auth EXCEPT !.last =
                Response("delete_profile", t, t.sub, 400, NoToken)]
       ELSE auth' = [auth EXCEPT
                !.users = WithoutUser(t.sub),
                !.last = Response("delete_profile", t, t.sub, 204, NoToken)]

\* a second passes
Tick ==
    /\ auth.now < MaxClock
    /\ auth' = [auth EXCEPT !.now = @ + 1]
    /\ UNCHANGED <<db_dialect, sessions, files, questions, requests, orm>>

\* user 1 is an admin with a password; user 2 has a password and, where the
\* google_id column is mapped, a Google account, and is an admin or not
InitAccounts ==
    /\ db_dialect = "postgresql"
    /\ sessions = << >>
    /\ files = << >>
    /\ questions = << >>
    /\ requests = << >>
    /\ orm = NoOrm
    /\ \E mapped \in BOOLEAN, admin2 \in BOOLEAN :
          auth = [users |-> (1 :> [is_active |-> TRUE, is_admin |-> TRUE,
                                   hashed_password |-> TRUE, google_id |-> 0,
                                   full_name |-> "a"])
                            @@ (2 :> [is_active |-> TRUE, is_admin |-> admin2,
                                      hashed_password |-> TRUE,
                                      google_id |-> IF mapped THEN 2 ELSE 0,
                                      full_name |-> "a"]),
                  next_id |-> 3,
                  google_id_mapped |-> mapped,
                  token_blacklist |-> {},
                  issued |-> {},
                  \* the tokens a logout succeeded with
                  logged_out |-> {},
                  now |-> 0,
                  last |-> [n |-> 0, op |-> "none", token |-> NoToken,
                            target |-> 0, status |-> 0, issued |-> NoToken]]

NextAccounts ==
    \/ \E u \in {1, 2}, pw_ok \in BOOLEAN : login_for_access_token(u, pw_ok)
    \/ \E g \in {2, 3} : login_with_google(g)
    \/ \E t \in auth.issued : logout(t)
    \/ \E t \in auth.issued, admin \in BOOLEAN : AuthenticatedRequest(t, admin)
    \/ \E t \in auth.issued : update_user_profile(t, "b")
    \/ \E t \in auth.issued, target \in {1, 2}, active \in BOOLEAN :
          SetUserActive(t, target, active)
    \/ \E t \in auth.issued : delete_user_account_me(t)
    \/ \E t \in auth.issued : delete_user_account(t)
    \/ Tick

SpecAccounts == InitAccounts /\ [][NextAccounts]_vars

\* the step is a request that authenticates with a token
AuthenticatesWithToken == auth'.last.n # auth.last.n /\ auth'.last.token # NoToken

\* C23: once a logout with token t has succeeded, every later request that
\* authenticates with t gets 401, whatever happened in between (logins,
\* logouts, profile changes, seconds passing) and whichever endpoint it is.
C23_LoggedOutTokenRejected ==
    [][(AuthenticatesWithToken /\ auth'.last.token \in auth.logged_out)
           => auth'.last.status = 401]_vars

\* a request with a logged-out token of a user who is still active was
\* rejected, after that user had logged in again
C23_Witness ==
    /\ auth.last.op = "request"
    /\ auth.last.token \in auth.logged_out
    /\ auth.last.token.sub \in DOMAIN auth.users
    /\ auth.users[auth.last.token.sub].is_active
    /\ auth.last.status = 401
    /\ \E t \in auth.issued : t.sub = auth.last.token.sub /\ t # auth.last.token

\* the step is a login attempt (password or Google) of a user who exists and
\* is deactivated
LoginOfDeactivated ==
    /\ auth'.last.n # auth.last.n
    /\ auth'.last.op \in {"login", "google"}
    /\ auth'.last.target \in DOMAIN auth.users
    /\ ~auth.users[auth'.last.target].is_active

\* the step is a request with a token of a user who exists and is deactivated
RequestOfDeactivated ==
    /\ AuthenticatesWithToken
    /\ auth'.last.token.sub \in DOMAIN auth.users
    /\ ~auth.users[auth'.last.token.sub].is_active

SelfDeletion ==
    /\ auth'.last.n # auth.last.n
    /\ auth'.last.op \in {"delete_me", "delete_profile"}

\* C25 as stated: no account self-deletion through the user API removes the
\* last admin account: if an admin account exists before the request, one
\* exists after it.
C25_LastAdminKept ==
    [][(SelfDeletion /\ Admins(auth.users) # {}) => Admins(auth'.users) # {}]_vars

----------------------------------------------------------------------------
(* visualize_text (SpecVisualize)                                          *)

\* text[:10000] of visualize_text
VISUALIZE_TEXT_LIMIT == 10000

\* a parsed JSON value, as far as its shape goes: its Python type and, for a
\* dict, its entries with the type and the size of each value
JsonDict(entries) == [py |-> "dict", entries |-> entries]
JsonEntry(key, py, len) == [key |-> key, py |-> py, len |-> len]

\* the dict visualize_text returns from its except branch
VISUALIZE_ERROR == JsonDict({JsonEntry("visualization", "str", 1)})

\* the except branch answering with the empty analysis of the prompt
visualize_text_empty_on_error(text, gw) ==
    IF gw.type = "raise"
    THEN JsonDict({JsonEntry("overview", "dict", 0), JsonEntry("actors", "list", 0)})
    ELSE gw.response

\* visualize_text: the value JsonOutputParser made of the Gateway's reply to
\* the first 10000 characters of the text; any exception of the call or of
\* the parser is caught and answered with the error dict.
\* gw: [type |-> "ok", response |-> the parsed value] or [type |-> "raise"]
visualize_text(text, gw) ==
    IF gw.type = "raise"
    THEN VISUALIZE_ERROR
    ELSE gw.response

\* one call of visualize_text, kept in the request log
VisualizeText(text, gw) ==
    /\ Len(requests) < MaxRequests
    /\ requests' = Append(requests,
           [kind |-> "visualize_text",
            text |-> text,
            gw_text |-> Prefix(text, VISUALIZE_TEXT_LIMIT),
            gw |-> gw,
            returned |-> TRUE,
            result |-> visualize_text(text, gw)])
    /\ UNCHANGED <<db_dialect, sessions, files, questions, orm, auth>>

\* the texts of the tests: empty, irrelevant, one actor, several actors
VisualizeTexts ==
    {<< >>,
     <<"iwqhp">>,
     <<"The product was amazing">>,
     <<"Alice: amazing", "Bob: bad", "Charlie: okay">>}

\* what chain.invoke gives: the analysis of one actor, of three actors, the
\* empty analysis, a dict without "actors", a JSON list, or an exception (the
\* Gateway cannot be reached, or its reply is no JSON)
VisualizeOutcomes ==
    {[type |-> "ok", response |->
         JsonDict({JsonEntry("overview", "dict", 5), JsonEntry("actors", "list", 0)})],
     [type |-> "ok", response |->
         JsonDict({JsonEntry("overview", "dict", 5), JsonEntry("actors", "list", 3)})],
     [type |-> "ok", response |->
         JsonDict({JsonEntry("overview", "dict", 0), JsonEntry("actors", "list", 0)})],
     [type |-> "ok", response |-> JsonDict({JsonEntry("overview", "dict", 5)})],
     [type |-> "ok", response |-> [py |-> "list", entries |-> {}]],
     [type |-> "raise", response |-> [py |-> "NoneType", entries |-> {}]]}

InitVisualize ==
    /\ db_dialect = "postgresql"
    /\ sessions = InitSessions
    /\ files = << >>
    /\ questions = << >>
    /\ requests = << >>
    /\ orm = NoOrm
    /\ auth = NoAuth

NextVisualize ==
    \E text \in VisualizeTexts, gw \in VisualizeOutcomes : VisualizeText(text, gw)

SpecVisualize == InitVisualize /\ [][NextVisualize]_vars

\* a dict with an "overview" entry holding a dict and an "actors" entry
\* holding a list
HasVisualizationShape(v) ==
    /\ v.py = "dict"
    /\ \E e \in v.entries : e.key = "overview" /\ e.py = "dict"
    /\ \E e \in v.entries : e.key = "actors" /\ e.py = "list"

----------------------------------------------------------------------------
(* The pasted-text rule of the streaming path (SpecBranches)               *)

\* the streams that got as far as generate_stream, on a session without
\* documents
StreamsWithoutDocuments ==
    {r \in StreamRequests :
        /\ requests[r].status \in {"streaming", "done", "cancelled"}
        /\ Len(requests[r].file_contents) = 0}

\* C27 as stated: on the streaming path, for a session with no documents,
\* the (question, context) pair given to the Gateway is: the question and
\* the empty context when the question has at most 100 characters;
\* otherwise, when it contains a "?" and more than 50 characters follow the
\* first "?", the text up to and including that "?" and the text after it;
\* otherwise the generic question and the whole original question.  The
\* persisted Turn keeps the original question.
C27_StreamQuestionContextPair ==
    \A r \in StreamsWithoutDocuments :
        LET q == requests[r].question
            cut == IndexOf(q, "?")
            pair == requests[r].stream_args
        IN  /\ Len(q) <= 100 => pair = [question |-> q, context |-> << >>]
            /\ (Len(q) > 100 /\ cut # 0 /\ Len(q) - cut > 50) =>
                  pair = [question |-> SubSeq(q, 1, cut), context |-> Suffix(q, cut)]
            /\ (Len(q) > 100 /\ (cut = 0 \/ Len(q) - cut <= 50)) =>
                  pair = [question |-> GENERIC_QUESTION, context |-> q]
            /\ \A i \in DOMAIN TurnsOf(r) : TurnsOf(r)[i].question_text = q

\* C27 amended: as stated, but in the split case the context is the text
\* after the first "?" with its leading and trailing whitespace removed (the
\* 50 characters are counted before the removal).
C27_StreamQuestionStrippedContext ==
    \A r \in StreamsWithoutDocuments :
        LET q == requests[r].question
            cut == IndexOf(q, "?")
            pair == requests[r].stream_args
        IN  /\ Len(q) <= 100 => pair = [question |-> q, context |-> << >>]
            /\ (Len(q) > 100 /\ cut # 0 /\ Len(q) - cut > 50) =>
                  pair = [question |-> SubSeq(q, 1, cut),
                          context |-> Strip(Suffix(q, cut))]
            /\ (Len(q) > 100 /\ (cut = 0 \/ Len(q) - cut <= 50)) =>
                  pair = [question |-> GENERIC_QUESTION, context |-> q]
            /\ \A i \in DOMAIN TurnsOf(r) : TurnsOf(r)[i].question_text = q

\* a stream on a session without documents whose question is "w? " followed
\* by pasted text ended: the context it gave was the pasted text without
\* the blank, and its Turn holds the original question
C27_Witness ==
    \E r \in StreamsWithoutDocuments :
        /\ requests[r].question = Q_PASTED_SPACED
        /\ requests[r].status = "done"
        /\ requests[r].stream_args.question = <<"w", "?">>
        /\ requests[r].stream_args.context = Fill(PASTED_TEXT_MIN - 2, "x")
        /\ requests[r].stream_args.context # Suffix(Q_PASTED_SPACED, 2)
        /\ Len(TurnsOf(r)) = 1
        /\ TurnsOf(r)[1].question_text = Q_PASTED_SPACED

----------------------------------------------------------------------------
(* answer_question on the responses of the model (SpecParse)               *)

\* the symbols of a response: text, the marker, a line break, a blank, the
\* text of a source
ResponseSymbols == {"a", SOURCES_MARKER, "\n", " ", "s"}

\* the responses of chain.invoke
Responses == BoundedSeqs(ResponseSymbols, MaxResponseLen)

\* the outcomes of chain.invoke: a response, or an exception
ParseOutcomes ==
    {[type |-> "ok", response |-> resp, msg |-> None] : resp \in Responses}
    \cup {[type |-> "raise", response |-> None, msg |-> <<"boom">>]}

\* a call of answer_question that has not returned yet
PendingCall(gw) ==
    [kind |-> "answer_question", gw |-> gw, state |-> "called",
     answer |-> None, sources |-> << >>]

InitParse ==
    /\ db_dialect = "postgresql"
    /\ sessions = InitSessions
    /\ files = << >>
    /\ questions = << >>
    /\ requests \in {<<PendingCall(gw)>> : gw \in ParseOutcomes}
    /\ orm = NoOrm
    /\ auth = NoAuth

\* answer_question returns its (answer, sources) pair, or raises again what
\* chain.invoke raised
AnswerQuestionReturns ==
    /\ requests[1].state = "called"
    /\ LET res == answer_question(Q_SHORT, << >>, << >>, requests[1].gw)
       IN  requests' = [requests EXCEPT ![1] =
               [@ EXCEPT !.state = IF res.raised THEN "raised" ELSE "returned",
                         !.answer = res.answer,
                         !.sources = res.sources]]
    /\ UNCHANGED <<db_dialect, sessions, files, questions, orm, auth>>

NextParse == AnswerQuestionReturns

SpecParse == InitParse /\ [][NextParse]_vars

\* the lines of t that are not blank
NonBlankLines(t) ==
    SelectSeq(Split(t, "\n"), LAMBDA l : Len(Strip(l)) > 0)

\* t holds the marker
HoldsMarker(t) == \E i \in 1..Len(t) : t[i] = SOURCES_MARKER

\* C28 as stated: answer_question splits the response at the first
\* "Sources:": the answer is the text before it and the sources are the
\* non-blank lines after it; without the marker the answer is the whole
\* response and the sources are empty; the answer never holds the Sources
\* section.
C28_SplitOnSources ==
    requests[1].state = "returned" =>
        LET resp == requests[1].gw.response
            cut == IndexOf(resp, SOURCES_MARKER)
        IN  /\ cut # 0 =>
                  /\ requests[1].answer = SubSeq(resp, 1, cut - 1)
                  /\ requests[1].sources = NonBlankLines(Suffix(resp, cut))
            /\ cut = 0 =>
                  /\ requests[1].answer = resp
                  /\ requests[1].sources = << >>
            /\ ~HoldsMarker(requests[1].answer)

\* C28 amended: the answer is the text before the first "Sources:" with its
\* surrounding whitespace removed, or the whole response, Sources section
\* included, when that text is empty; the sources are the non-blank lines
\* after the marker, each with its surrounding whitespace removed; without
\* the marker the answer is the whole response and the sources are empty.
\* The answer holds the marker exactly when nothing but whitespace comes
\* before the first marker.
C28_SplitOnSourcesStripped ==
    requests[1].state = "returned" =>
        LET resp == requests[1].gw.response
            cut == IndexOf(resp, SOURCES_MARKER)
            before == Strip(SubSeq(resp, 1, cut - 1))
            lines == NonBlankLines(Suffix(resp, cut))
        IN  /\ cut # 0 =>
                  /\ requests[1].answer = IF Len(before) = 0 THEN resp ELSE before
                  /\ requests[1].sources = [i \in 1..Len(lines) |-> Strip(lines[i])]
            /\ cut = 0 =>
                  /\ requests[1].answer = resp
                  /\ requests[1].sources = << >>
            /\ HoldsMarker(requests[1].answer) <=> (cut # 0 /\ Len(before) = 0)

\* the response "Sources:", line break, "s" was returned whole as the
\* answer, with the source "s"
C28_Witness ==
    /\ requests[1].state = "returned"
    /\ requests[1].gw.response = <<SOURCES_MARKER, "\n", "s">>
    /\ requests[1].answer = requests[1].gw.response
    /\ requests[1].sources = <<<<"s">>>>

----------------------------------------------------------------------------
(* One question request over a database that holds rows of several         *)
(* sessions (SpecIsolation)                                                *)

\* session 1 and session 3 of user 1, session 2 of user 2
IsoSessions == (1 :> 1) @@ (2 :> 2) @@ (3 :> 1)

\* a file of session 1 with its contents, a file of session 1 without a
\* file_contents row, a file of session 2, a file of session 3
IsoFileKinds == {"own", "own_empty", "other", "sibling"}
\* a Turn of session 1 with an answer, one without, a Turn of session 2, a
\* Turn of session 3
IsoTurnKinds == {"answered", "unanswered", "other", "sibling"}

IsoSessionOf(kind) ==
    IF kind = "other" THEN 2 ELSE IF kind = "sibling" THEN 3 ELSE 1

\* the files table with one row per kind of ks
IsoFiles(ks) ==
    [i \in 1..Len(ks) |->
        [session_id |-> IsoSessionOf(ks[i]),
         content |-> IF ks[i] = "own_empty" THEN None
                     ELSE <<"c", ks[i], TurnSymbols[i]>>]]

\* the Turn Log with one Turn per kind of ks, in creation order
IsoLog(ks) ==
    [i \in 1..Len(ks) |->
        [id |-> i,
         session_id |-> IsoSessionOf(ks[i]),
         question_text |-> <<"q", TurnSymbols[i]>>,
         answer_text |-> IF ks[i] = "unanswered" THEN None
                         ELSE <<"a", TurnSymbols[i]>>,
         chart_data |-> None,
         req |-> 0]]

IsoLimits == {NoInt, SomeInt(1)}

InitIsolation ==
    /\ db_dialect = "postgresql"
    /\ sessions = IsoSessions
    /\ files \in {IsoFiles(ks) : ks \in BoundedSeqs(IsoFileKinds, MaxIsoRows)}
    /\ questions \in {IsoLog(ks) : ks \in BoundedSeqs(IsoTurnKinds, MaxIsoRows)}
    /\ requests = << >>
    /\ orm = NoOrm
    /\ auth = NoAuth

\* one question request of user 1, synchronous or streamed, on one of the
\* three sessions, and its stream
NextIsolation ==
    \/ /\ Len(requests) = 0
       /\ \/ \E sid \in DOMAIN IsoSessions, l \in IsoLimits, gw \in GatewayOutcomes,
                   ok \in BOOLEAN :
                AskQuestion(1, sid, Q_SHORT, l, gw, ok)
          \/ \E sid \in DOMAIN IsoSessions, q \in Questions, l \in IsoLimits :
                StreamQuestionAnswer(1, sid, q, l)
       /\ UNCHANGED <<orm, auth>>
    \/ StreamToken(1) /\ UNCHANGED <<orm, auth>>
    \/ StreamGatewayRaise(1, <<"boom">>) /\ UNCHANGED <<orm, auth>>
    \/ \E ok \in BOOLEAN : StreamEnd(1, ok) /\ UNCHANGED <<orm, auth>>
    \/ StreamCancel(1) /\ UNCHANGED <<orm, auth>>

SpecIsolation == InitIsolation /\ [][NextIsolation]_vars

\* C29: every step of a question request, synchronous or streamed, leaves
\* the sessions and all Documents unchanged and every Turn that existed
\* before it unchanged and in place, in every session; the Turn Log either
\* stays as it is or gains one Turn at its end, in the requested session and
\* with the request's question, and a request adds one Turn at most.
C29_TurnLogAppendOnly ==
    [][/\ files' = files
       /\ sessions' = sessions
       /\ \/ questions' = questions
          \/ /\ Len(questions') = Len(questions) + 1
             /\ SubSeq(questions', 1, Len(questions)) = questions
             /\ questions'[Len(questions')].session_id = requests'[1].session_id
             /\ questions'[Len(questions')].question_text = requests'[1].question
             /\ questions'[Len(questions')].req = 1
       /\ Len(SelectSeq(questions', LAMBDA t : t.req = 1)) <= 1]_vars

\* a stream on session 1 stored its Turn behind a Turn of session 1 and a
\* Turn of session 2, which are as they were, next to a file of session 1
C29_Witness ==
    /\ Len(requests) = 1
    /\ requests[1].kind = "stream"
    /\ requests[1].status = "done"
    /\ requests[1].session_id = 1
    /\ Len(questions) = 3
    /\ SubSeq(questions, 1, 2) = IsoLog(<<"answered", "other">>)
    /\ questions[3].session_id = 1
    /\ questions[3].req = 1
    /\ files = IsoFiles(<<"own">>)


\* the rows of session sid in a table, and the rows of the other sessions
RowsOf(table, sid) == SelectSeq(table, LAMBDA row : row.session_id = sid)
RowsOfOthers(table, sid) == SelectSeq(table, LAMBDA row : row.session_id # sid)

\* the contents of the file rows own_files that have contents
ContentsOfRows(own_files) ==
    LET with == SelectSeq(own_files, LAMBDA f : f.content # None)
    IN  [i \in 1..Len(with) |-> with[i].content]

\* the newest n Turns with an answer among the Turn rows own_turns, newest
\* first
NewestAnswered(own_turns, n) ==
    LET answered == SelectSeq(own_turns, LAMBDA t : t.answer_text # None)
    IN  Prefix(Reverse(answered), n)

\* C30: what a question request on session S reads and writes is determined
\* by the rows of S alone.  On the step that handles the request, the file
\* contents, the history and the Gateway request are those computed from
\* the file rows and the Turn rows of S, whatever rows of other sessions
\* (of the same or of another user) the tables hold; every Gateway request
\* of a stream is made of the arguments and the history fixed on that step;
\* on every step the rows of the other sessions stay as they are and the
\* Turn rows of S stay as they are or gain one Turn with the request's
\* question, its answer and no chart.  Two states with the same rows of S
\* therefore give the same context, history, Gateway request and Turn.
C30_OnlyOwnSessionRows ==
    [][LET req == requests'[1]
           S == req.session_id
           fc == ContentsOfRows(RowsOf(files, S))
           newest == NewestAnswered(RowsOf(questions, S),
                                    EffectiveLimit(req.history_limit))
           hist == IF req.kind = "ask" THEN HistorySync(newest)
                   ELSE HistoryStream(newest)
           own == RowsOf(questions, S)
           own_after == RowsOf(questions', S)
       IN  /\ (Len(requests) = 0 /\ req.status # "not_found") =>
                 /\ req.file_contents = fc
                 /\ req.conversation_history = hist
                 /\ req.kind = "ask" =>
                       req.gw_calls =
                           <<PromptInputs(req.question, Join(fc, <<"\n", "\n">>), hist)>>
                 /\ req.kind = "stream" =>
                       req.stream_args = StreamPlan(req.question, fc).args
           /\ req.kind = "stream" =>
                 \A i \in 1..Len(req.gw_calls) :
                     req.gw_calls[i] =
                         PromptInputs(req.stream_args.question,
                                      req.stream_args.context,
                                      req.conversation_history)
           /\ req.status = "not_found" => questions' = questions
           /\ RowsOfOthers(questions', S) = RowsOfOthers(questions, S)
           /\ RowsOfOthers(files', S) = RowsOfOthers(files, S)
           /\ RowsOf(files', S) = RowsOf(files, S)
           /\ \/ own_after = own
              \/ /\ Len(own_after) = Len(own) + 1
                 /\ SubSeq(own_after, 1, Len(own)) = own
                 /\ own_after[Len(own_after)].question_text = req.question
                 /\ own_after[Len(own_after)].answer_text =
                       (IF req.kind = "ask" THEN req.answer ELSE req.complete_answer)
                 /\ own_after[Len(own_after)].chart_data = None]_vars

\* a synchronous request on session 1 was answered over a database that
\* holds a file and an answered Turn of session 2 next to those of session
\* 1: its context and its history hold those of session 1 only
C30_Witness ==
    /\ Len(requests) = 1
    /\ requests[1].kind = "ask"
    /\ requests[1].status = "ok"
    /\ requests[1].session_id = 1
    /\ files = IsoFiles(<<"other", "own">>)
    /\ Len(questions) = 3
    /\ SubSeq(questions, 1, 2) = IsoLog(<<"other", "answered">>)
    /\ questions[3].session_id = 1
    /\ requests[1].file_contents = <<files[2].content>>
    /\ Len(requests[1].conversation_history) = 1
    /\ requests[1].conversation_history[1].question = questions[2].question_text

====
